---- MODULE Spec2Model ----
(***************************************************************************)
(* Model of example_project: the byte-conversion and file-persistence      *)
(* commands (adapter/storage/__init__.py) and the two storage adapters     *)
(* that resolve a destination and delegate to SaveToFile; the composition  *)
(* layer (composition/context.py, composition/frames.py, main.py) that     *)
(* resolves classes by dotted name and wires the DownloadAndStore use case *)
(* (application/use_case.py); and a second run saving to the same file     *)
(* system.  Spec covers the storage layer, SpecPipeline the composition    *)
(* and the use case, SpecConcurrent two runs saving at the same time,      *)
(* SpecWriteFailure a save on a file system whose writes may fail.         *)
(*                                                                         *)
(* Conventions                                                             *)
(*   - a Python str is a sequence of Unicode code points (integers);       *)
(*   - a Python bytes object is a sequence of integers 0..255;             *)
(*   - a path string is a sequence of one-character strings, so that the   *)
(*     separator "/" can be inspected;                                     *)
(*   - a Python value is a record [type |-> <class name>, val |-> ...].    *)
(***************************************************************************)
EXTENDS Integers, Sequences, FiniteSets, TLC

(***************************************************************************)
(* Bounds of the model.                                                    *)
(***************************************************************************)
MaxCalls == 2

\* top-level calls when the caller composes a pipeline (a storage adapter,
\* the use case, its execution)
MaxPipelineCalls == 4

(***************************************************************************)
(* State.                                                                  *)
(*   dirs, files  the file system                                          *)
(*   storage      the storage adapter instance the caller holds            *)
(*   pc, frame    the position and the locals of the running               *)
(*                SaveToFile.execute                                       *)
(*   conv         the input and outcome of the latest ConvertToBytes call  *)
(*   memo         an earlier ConvertToBytes call, kept for comparison      *)
(*   result       how the latest top-level call ended                      *)
(*   ncalls       the number of top-level calls made so far                *)
(*   context      the Context the caller holds                             *)
(*   usecase      the DownloadAndStore instance the caller holds           *)
(*   trace        what the latest composition or use-case call did, in     *)
(*                order: resolutions, instantiations, prints, stage calls  *)
(*   other        a SaveToFile.execute running in another pipeline run     *)
(***************************************************************************)
VARIABLES dirs, files, storage, pc, frame, conv, memo, result, ncalls,
          context, usecase, trace, other

vars == << dirs, files, storage, pc, frame, conv, memo, result, ncalls,
           context, usecase, trace, other >>

\* the state of the composition layer and of the other run
composition == << context, usecase, trace, other >>

(***************************************************************************)
(* Text helpers.                                                           *)
(***************************************************************************)
AsciiChars ==
  << " ", "!", "\"", "#", "$", "%", "&", "'", "(", ")", "*", "+", ",", "-", ".", "/",
     "0", "1", "2", "3", "4", "5", "6", "7", "8", "9", ":", ";", "<", "=", ">", "?",
     "@", "A", "B", "C", "D", "E", "F", "G", "H", "I", "J", "K", "L", "M", "N", "O",
     "P", "Q", "R", "S", "T", "U", "V", "W", "X", "Y", "Z", "[", "\\", "]", "^", "_",
     "<grave>", "a", "b", "c", "d", "e", "f", "g", "h", "i", "j", "k", "l", "m", "n", "o",
     "p", "q", "r", "s", "t", "u", "v", "w", "x", "y", "z", "{", "|", "}", "~" >>

\* ord(c) for a printable ASCII character c (code 96 is not written as a literal)
Ord(c) == 31 + (CHOOSE i \in 1..Len(AsciiChars) : AsciiChars[i] = c)

\* the str whose characters are the one-character strings of cs
S(cs) == [i \in 1..Len(cs) |-> Ord(cs[i])]

RECURSIVE Concat(_)
\* concatenation of a sequence of sequences
Concat(ss) ==
  IF ss = <<>> THEN <<>>
  ELSE IF Len(ss) = 1 THEN ss[1]
  ELSE LET h == Len(ss) \div 2
       IN Concat(SubSeq(ss, 1, h)) \o Concat(SubSeq(ss, h + 1, Len(ss)))

RECURSIVE JoinWith(_, _)
\* sep.join(ss)
JoinWith(sep, ss) ==
  IF ss = <<>> THEN <<>>
  ELSE IF Len(ss) = 1 THEN ss[1]
  ELSE ss[1] \o sep \o JoinWith(sep, Tail(ss))

RECURSIVE Digits(_)
\* decimal digits of a natural number, as code points
Digits(n) == IF n < 10 THEN << 48 + n >> ELSE Digits(n \div 10) \o << 48 + (n % 10) >>

RECURSIVE ZeroPad(_, _)
\* format(n, "0<w>d")
ZeroPad(n, w) == IF Len(Digits(n)) >= w THEN Digits(n)
                 ELSE LET RECURSIVE Pad(_)
                          Pad(s) == IF Len(s) >= w THEN s ELSE Pad(<<48>> \o s)
                      IN Pad(Digits(n))

HexDigit(n) == IF n < 10 THEN 48 + n ELSE 87 + n

\* format(n, "04x")
Hex4(n) == << HexDigit((n \div 4096) % 16), HexDigit((n \div 256) % 16),
              HexDigit((n \div 16) % 16), HexDigit(n % 16) >>

(***************************************************************************)
(* str.encode("utf-8")                                                     *)
(***************************************************************************)
IsSurrogate(cp) == cp >= 55296 /\ cp <= 57343

Utf8Char(cp) ==
  IF cp < 128 THEN << cp >>
  ELSE IF cp < 2048 THEN << 192 + (cp \div 64), 128 + (cp % 64) >>
  ELSE IF cp < 65536 THEN << 224 + (cp \div 4096), 128 + ((cp \div 64) % 64), 128 + (cp % 64) >>
  ELSE << 240 + (cp \div 262144), 128 + ((cp \div 4096) % 64),
          128 + ((cp \div 64) % 64), 128 + (cp % 64) >>

Utf8Encodable(s) == \A i \in 1..Len(s) : ~IsSurrogate(s[i])

Utf8(s) == Concat([i \in 1..Len(s) |-> Utf8Char(s[i])])

(***************************************************************************)
(* Python values and the built-in conversions ConvertToBytes relies on.    *)
(***************************************************************************)
PyStr(cs)        == [type |-> "str", val |-> S(cs)]
PyBytes(bs)      == [type |-> "bytes", val |-> bs]
PyByteArray(bs)  == [type |-> "bytearray", val |-> bs]
PyDict(items)    == [type |-> "dict", val |-> items]
PyList(items)    == [type |-> "list", val |-> items]
PyTuple(items)   == [type |-> "tuple", val |-> items]
PyFloat(n, w, f) == [type |-> "float", val |-> [neg |-> n, whole |-> w, frac |-> f]]
PyInt(n)         == [type |-> "int", val |-> n]
PyBool(b)        == [type |-> "bool", val |-> b]
PyNone           == [type |-> "NoneType", val |-> 0]
PyDateTime(y, mo, d, h, mi, s, us) ==
  [type |-> "datetime",
   val |-> [year |-> y, month |-> mo, day |-> d, hour |-> h, minute |-> mi,
            second |-> s, microsecond |-> us]]
PyDate(y, mo, d) == [type |-> "date", val |-> [year |-> y, month |-> mo, day |-> d]]
PyTimeDelta(d, s, us) ==
  [type |-> "timedelta", val |-> [days |-> d, seconds |-> s, microseconds |-> us]]

\* the classes of type t's method resolution order: bool derives from int,
\* datetime derives from date
Mro(t) ==
  CASE t = "bool"     -> {"bool", "int", "object"}
    [] t = "datetime" -> {"datetime", "date", "object"}
    [] OTHER          -> {t, "object"}

IsInstance(d, cls) == cls \in Mro(d.type)

\* int.__repr__
StrInt(n) == IF n < 0 THEN <<45>> \o Digits(0 - n) ELSE Digits(n)

\* bool.__repr__
StrBool(b) == IF b THEN S(<<"T", "r", "u", "e">>) ELSE S(<<"F", "a", "l", "s", "e">>)

\* float.__repr__ for a float given by sign, integral part and the digits
\* of its fractional part (magnitudes that repr prints without an exponent)
StrFloat(f) ==
  (IF f.neg THEN <<45>> ELSE <<>>) \o Digits(f.whole) \o <<46>>
    \o (IF f.frac = <<>> THEN <<48>> ELSE [i \in 1..Len(f.frac) |-> 48 + f.frac[i]])

\* str(d) of an int, bool or float, dispatched on the object's own class
Str(d) ==
  CASE d.type = "bool"  -> StrBool(d.val)
    [] d.type = "int"   -> StrInt(d.val)
    [] d.type = "float" -> StrFloat(d.val)

\* date.isoformat()
DateIsoFormat(v) ==
  ZeroPad(v.year, 4) \o <<45>> \o ZeroPad(v.month, 2) \o <<45>> \o ZeroPad(v.day, 2)

\* datetime.isoformat() of a naive datetime
DateTimeIsoFormat(v) ==
  DateIsoFormat(v) \o <<84>> \o ZeroPad(v.hour, 2) \o <<58>> \o ZeroPad(v.minute, 2)
    \o <<58>> \o ZeroPad(v.second, 2)
    \o (IF v.microsecond = 0 THEN <<>> ELSE <<46>> \o ZeroPad(v.microsecond, 6))

\* isoformat() dispatched on the object's own class
IsoFormat(d) == IF d.type = "datetime" THEN DateTimeIsoFormat(d.val) ELSE DateIsoFormat(d.val)

RECURSIVE StripZeros(_)
StripZeros(ds) == IF ds # <<>> /\ ds[Len(ds)] = 0 THEN StripZeros(SubSeq(ds, 1, Len(ds) - 1)) ELSE ds

\* timedelta.total_seconds(): a float; the timedelta is normalised
\* (0 <= seconds < 86400, 0 <= microseconds < 1000000, days of either sign)
TotalSeconds(d) ==
  LET secs  == d.val.days * 86400 + d.val.seconds
      us    == d.val.microseconds
      neg   == secs < 0
      whole == IF ~neg THEN secs ELSE IF us = 0 THEN 0 - secs ELSE (0 - secs) - 1
      fr    == IF ~neg \/ us = 0 THEN us ELSE 1000000 - us
      six   == << (fr \div 100000) % 10, (fr \div 10000) % 10, (fr \div 1000) % 10,
                  (fr \div 100) % 10, (fr \div 10) % 10, fr % 10 >>
  IN PyFloat(neg, whole, StripZeros(six))

(***************************************************************************)
(* json.dumps with the default arguments (ensure_ascii, ", " and ": ").    *)
(***************************************************************************)
JsonEscapeChar(cp) ==
  CASE cp = 34 -> <<92, 34>>
    [] cp = 92 -> <<92, 92>>
    [] cp = 10 -> <<92, 110>>
    [] cp = 13 -> <<92, 114>>
    [] cp = 9  -> <<92, 116>>
    [] cp = 12 -> <<92, 102>>
    [] cp = 8  -> <<92, 98>>
    [] OTHER ->
         IF cp >= 32 /\ cp <= 126 THEN << cp >>
         ELSE IF cp < 65536 THEN <<92, 117>> \o Hex4(cp)
         ELSE LET n == cp - 65536
              IN <<92, 117>> \o Hex4(55296 + ((n \div 1024) % 1024))
                   \o <<92, 117>> \o Hex4(56320 + (n % 1024))

JsonString(s) == <<34>> \o Concat([i \in 1..Len(s) |-> JsonEscapeChar(s[i])]) \o <<34>>

JsonScalarTypes == {"str", "int", "bool", "float", "NoneType"}

JsonScalar(v) ==
  CASE v.type = "str"      -> JsonString(v.val)
    [] v.type = "NoneType" -> S(<<"n", "u", "l", "l">>)
    [] v.type = "bool"     -> IF v.val THEN S(<<"t", "r", "u", "e">>)
                                        ELSE S(<<"f", "a", "l", "s", "e">>)
    [] v.type = "int"      -> StrInt(v.val)
    [] v.type = "float"    -> StrFloat(v.val)

\* a dict key as json.dumps writes it
JsonKey(k) == IF k.type = "str" THEN JsonString(k.val) ELSE <<34>> \o JsonScalar(k) \o <<34>>

RECURSIVE JsonSerializable(_)
\* json.dumps(v) raises no TypeError
JsonSerializable(v) ==
  IF v.type \in JsonScalarTypes THEN TRUE
  ELSE IF v.type \in {"list", "tuple"}
    THEN \A i \in 1..Len(v.val) : JsonSerializable(v.val[i])
  ELSE IF v.type = "dict"
    THEN \A i \in 1..Len(v.val) :
           v.val[i][1].type \in JsonScalarTypes /\ JsonSerializable(v.val[i][2])
  ELSE FALSE

RECURSIVE JsonDumps(_)
\* json.dumps(v) of a serializable value, as a str
JsonDumps(v) ==
  IF v.type \in JsonScalarTypes THEN JsonScalar(v)
  ELSE IF v.type \in {"list", "tuple"}
    THEN <<91>> \o JoinWith(<<44, 32>>, [i \in 1..Len(v.val) |-> JsonDumps(v.val[i])]) \o <<93>>
  ELSE <<123>>
         \o JoinWith(<<44, 32>>,
              [i \in 1..Len(v.val) |->
                 JsonKey(v.val[i][1]) \o <<58, 32>> \o JsonDumps(v.val[i][2])])
         \o <<125>>

(***************************************************************************)
(* ConvertToBytes.execute                                                  *)
(***************************************************************************)
\* an outcome of a call: the bytes returned, or the exception raised;
\* branch names the arm of the isinstance chain that was taken
Return(bs, br)       == [status |-> "return", bytes |-> bs, exc |-> "", msg |-> <<>>, branch |-> br]
Raise(exc, msg, br)  == [status |-> "raise", bytes |-> <<>>, exc |-> exc, msg |-> msg, branch |-> br]

\* s.encode("utf-8") where s is the value an arm computed
Encode(s, br) ==
  IF s.type # "str"
    THEN Raise("AttributeError", <<"'", s.type, "' object has no attribute 'encode'">>, br)
  ELSE IF ~Utf8Encodable(s.val)
    THEN Raise("UnicodeEncodeError", <<"'utf-8' codec can't encode character: surrogates not allowed">>, br)
  ELSE Return(Utf8(s.val), br)

\* json.dumps(d).encode("utf-8")
EncodeJson(d, br) ==
  IF JsonSerializable(d) THEN Encode([type |-> "str", val |-> JsonDumps(d)], br)
  ELSE Raise("TypeError", <<"Object is not JSON serializable">>, br)

\* the arm taken for an int instance: d = str(d).encode("utf-8")
ConvertInt_Coerced(d) ==
  Encode([type |-> "str",
          val |-> StrInt(IF d.type = "bool" THEN (IF d.val THEN 1 ELSE 0) ELSE d.val)], "int")

ConvertInt(d) == Encode([type |-> "str", val |-> Str(d)], "int")

\* the final arm: raise Exception(f"Unsupported type: {type(d)}")
UnsupportedType_Passed(d) == Return(<<>>, "else")

UnsupportedType(d) == Raise("Exception", <<"Unsupported type: ", "<class '", d.type, "'>">>, "else")

\* a chain of type checks that tests for a calendar date before it tests
\* for a date-time
ConvertToBytesExecute_DateFirst(d) ==
  IF IsInstance(d, "str") THEN Encode(d, "str")
  ELSE IF IsInstance(d, "bytes") THEN Return(d.val, "bytes")
  ELSE IF IsInstance(d, "bytearray") THEN Return(d.val, "bytearray")
  ELSE IF IsInstance(d, "dict") THEN EncodeJson(d, "dict")
  ELSE IF IsInstance(d, "list") THEN EncodeJson(d, "list")
  ELSE IF IsInstance(d, "float") THEN Encode([type |-> "str", val |-> Str(d)], "float")
  ELSE IF IsInstance(d, "int") THEN ConvertInt(d)
  ELSE IF IsInstance(d, "bool") THEN Encode([type |-> "str", val |-> Str(d)], "bool")
  ELSE IF IsInstance(d, "date") THEN Encode([type |-> "str", val |-> IsoFormat(d)], "date")
  ELSE IF IsInstance(d, "datetime") THEN Encode([type |-> "str", val |-> IsoFormat(d)], "datetime")
  ELSE IF IsInstance(d, "timedelta") THEN Encode(TotalSeconds(d), "timedelta")
  ELSE UnsupportedType(d)

ConvertToBytesExecute(d) ==
  IF IsInstance(d, "str") THEN Encode(d, "str")
  ELSE IF IsInstance(d, "bytes") THEN Return(d.val, "bytes")
  ELSE IF IsInstance(d, "bytearray") THEN Return(d.val, "bytearray")
  ELSE IF IsInstance(d, "dict") THEN EncodeJson(d, "dict")
  ELSE IF IsInstance(d, "list") THEN EncodeJson(d, "list")
  ELSE IF IsInstance(d, "float") THEN Encode([type |-> "str", val |-> Str(d)], "float")
  ELSE IF IsInstance(d, "int") THEN ConvertInt(d)
  ELSE IF IsInstance(d, "bool") THEN Encode([type |-> "str", val |-> Str(d)], "bool")
  ELSE IF IsInstance(d, "datetime") THEN Encode([type |-> "str", val |-> IsoFormat(d)], "datetime")
  ELSE IF IsInstance(d, "date") THEN Encode([type |-> "str", val |-> IsoFormat(d)], "date")
  ELSE IF IsInstance(d, "timedelta") THEN Encode(TotalSeconds(d), "timedelta")
  ELSE UnsupportedType(d)

\* a converter that keeps the bytes of the previous call in the instance
ConvertToBytes_SharedBuffer(d) ==
  LET o == ConvertToBytesExecute(d)
  IN IF o.status = "return" THEN [o EXCEPT !.bytes = conv.out.bytes \o o.bytes] ELSE o

\* Command.__call__ on a fresh ConvertToBytes(): converter(d)
ConvertToBytes(d) == ConvertToBytesExecute(d)


(***************************************************************************)
(* The payloads of the source adapters.                                    *)
(***************************************************************************)
\* GraphQLService.download()
GraphQLPayload ==
  PyDict(<< <<PyStr(<<"p", "a", "y", "l", "o", "a", "d">>), PyList(<< PyDict(<< <<PyStr(<<"i", "d">>), PyInt(10)>>,
        <<PyStr(<<"n", "a", "m", "e">>), PyStr(<<"f", "r", "a", "m", "e", "1">>)>>,
        <<PyStr(<<"l", "o", "c", "a", "t", "i", "o", "n">>), PyStr(<<"L", "o", "n", "d", "o", "n", ",", " ", "U", "K">>)>> >>),
      PyDict(<< <<PyStr(<<"i", "d">>), PyInt(12)>>,
        <<PyStr(<<"n", "a", "m", "e">>), PyStr(<<"f", "r", "a", "m", "e", "2">>)>>,
        <<PyStr(<<"l", "o", "c", "a", "t", "i", "o", "n">>), PyStr(<<"L", "o", "n", "d", "o", "n", ",", " ", "U", "K">>)>> >>),
      PyDict(<< <<PyStr(<<"i", "d">>), PyInt(13)>>,
        <<PyStr(<<"n", "a", "m", "e">>), PyStr(<<"f", "r", "a", "m", "e", "3">>)>>,
        <<PyStr(<<"l", "o", "c", "a", "t", "i", "o", "n">>), PyStr(<<"L", "o", "n", "d", "o", "n", ",", " ", "U", "K">>)>> >>),
      PyDict(<< <<PyStr(<<"i", "d">>), PyInt(14)>>,
        <<PyStr(<<"n", "a", "m", "e">>), PyStr(<<"f", "r", "a", "m", "e", "4">>)>>,
        <<PyStr(<<"l", "o", "c", "a", "t", "i", "o", "n">>), PyStr(<<"L", "o", "n", "d", "o", "n", ",", " ", "U", "K">>)>> >>) >>)>> >>)

\* FrameService.download()
FramePayload ==
  PyDict(<< <<PyStr(<<"s", "t", "a", "r", "t">>), PyInt(0)>>,
        <<PyStr(<<"o", "f", "f", "s", "e", "t">>), PyInt(0)>>,
        <<PyStr(<<"l", "i", "m", "i", "t">>), PyInt(500)>>,
        <<PyStr(<<"d", "a", "t", "a">>), PyList(<< PyDict(<< <<PyStr(<<"i", "d">>), PyInt(1)>>,
        <<PyStr(<<"n", "a", "m", "e">>), PyStr(<<"f", "r", "a", "m", "e", "1">>)>> >>),
      PyDict(<< <<PyStr(<<"i", "d">>), PyInt(2)>>,
        <<PyStr(<<"n", "a", "m", "e">>), PyStr(<<"f", "r", "a", "m", "e", "2">>)>> >>),
      PyDict(<< <<PyStr(<<"i", "d">>), PyInt(3)>>,
        <<PyStr(<<"n", "a", "m", "e">>), PyStr(<<"f", "r", "a", "m", "e", "3">>)>> >>) >>)>> >>)

\* the mapping of a stub source
StubPayload ==
  PyDict(<< <<PyStr(<<"d", "a", "t", "a">>), PyList(<< PyDict(<< <<PyStr(<<"i", "d">>), PyInt(1)>>,
        <<PyStr(<<"n", "a", "m", "e">>), PyStr(<<"f", "r", "a", "m", "e", "1">>)>> >>) >>)>> >>)

(***************************************************************************)
(* The values the callers pass in this model; a state refers to a value    *)
(* by its index in this table.                                             *)
(***************************************************************************)
Values ==
  << PyStr(<<"h", "i">>),
     [type |-> "str", val |-> <<233, 8364, 128512>>],
     PyBytes(<<0, 255, 10>>),
     PyByteArray(<<1, 2>>),
     PyDict(<< <<PyStr(<<"a">>), PyInt(1)>>,
               <<PyStr(<<"b">>), PyList(<<PyBool(TRUE), PyNone>>)>> >>),
     PyDict(<< <<PyStr(<<"b">>), PyList(<<PyBool(TRUE), PyNone>>)>>,
               <<PyStr(<<"a">>), PyInt(1)>> >>),
     PyList(<<PyInt(1), [type |-> "str", val |-> <<233, 34, 10>>], PyFloat(FALSE, 1, <<5>>)>>),
     PyFloat(FALSE, 1, <<5>>),
     PyFloat(TRUE, 2, <<>>),
     PyInt(0),
     PyInt(1),
     PyInt(0 - 12),
     PyBool(TRUE),
     PyBool(FALSE),
     PyDateTime(2025, 1, 2, 3, 4, 5, 0),
     PyDateTime(2025, 1, 2, 0, 0, 0, 250),
     PyDate(2025, 1, 2),
     PyTimeDelta(0, 3, 0),
     PyTimeDelta(1, 0, 500000),
     PyTimeDelta(0 - 1, 0, 0),
     PyNone,
     PyTuple(<<PyInt(1)>>),
     [type |-> "set", val |-> {}],
     [type |-> "time", val |-> [hour |-> 1, minute |-> 2, second |-> 3]],
     GraphQLPayload,
     FramePayload,
     StubPayload >>

ValueIds == 1..Len(Values)

\* converter(d) for every value d of the table
ConvertToBytesOf == [i \in ValueIds |-> ConvertToBytes(Values[i])]

\* the index of a value of the table
IdOf(v) == CHOOSE i \in ValueIds : Values[i] = v

GraphQLPayloadId == IdOf(GraphQLPayload)
FramePayloadId == IdOf(FramePayload)
StubPayloadId == IdOf(StubPayload)

(***************************************************************************)
(* pathlib.  A path string is a sequence of lexemes: the separator "/" or  *)
(* a maximal separator-free run of characters ("data", "f.json", "..").    *)
(* A Path object is its root ("", "/" or "//") and its parts.              *)
(***************************************************************************)
Sep == "/"

RECURSIVE LStripSep(_)
\* s.lstrip("/")
LStripSep(s) == IF s # <<>> /\ Head(s) = Sep THEN LStripSep(Tail(s)) ELSE s

\* _PosixFlavour.splitroot: exactly two leading separators are kept as "//"
SplitRoot(s) ==
  LET rel == LStripSep(s)
      n   == Len(s) - Len(rel)
  IN [root |-> IF n = 0 THEN "" ELSE IF n = 2 THEN "//" ELSE "/", rel |-> rel]

\* the parts of rel.split("/") that are neither empty nor "."
SplitParts(rel) == SelectSeq(rel, LAMBDA x : x # Sep /\ x # ".")

\* PurePosixPath(s) for one string
ParsePath(s) == [root |-> SplitRoot(s).root, parts |-> SplitParts(SplitRoot(s).rel)]

\* joining an already parsed path with the next argument: a rooted
\* argument discards everything before it
JoinPath(p, q) == IF q.root # "" THEN q ELSE [root |-> p.root, parts |-> p.parts \o q.parts]

RECURSIVE JoinAll(_, _)
JoinAll(p, qs) == IF qs = <<>> THEN p ELSE JoinAll(JoinPath(p, Head(qs)), Tail(qs))

\* Path(*args), every argument already parsed
PathOf(args) == JoinAll(Head(args), Tail(args))

RECURSIVE Intersperse(_)
Intersperse(parts) ==
  IF parts = <<>> THEN <<>>
  ELSE IF Len(parts) = 1 THEN parts
  ELSE <<Head(parts), Sep>> \o Intersperse(Tail(parts))

\* Path.as_posix(), which is str(path) on a POSIX system
AsPosix(p) ==
  IF p.root = "" /\ p.parts = <<>> THEN <<".">>
  ELSE (IF p.root = "" THEN <<>> ELSE IF p.root = "/" THEN <<Sep>> ELSE <<Sep, Sep>>)
         \o Intersperse(p.parts)

\* str.endswith
EndsWith(s, c) == s # <<>> /\ s[Len(s)] = c

\* Path.parent
Parent(p) ==
  IF p.parts = <<>> THEN p ELSE [root |-> p.root, parts |-> SubSeq(p.parts, 1, Len(p.parts) - 1)]

(***************************************************************************)
(* The file system: a set of directories and a map from regular files to   *)
(* their content, both keyed by the list of names from the root.  There    *)
(* are no symbolic links and no permission failures.                       *)
(***************************************************************************)
Cwd == <<"work">>

\* the names the kernel walks for path p
Components(p) == (IF p.root = "" THEN Cwd ELSE <<>>) \o p.parts

RECURSIVE WalkFrom(_, _, _, _)
\* path resolution: every prefix that is stepped out of must be a directory
WalkFrom(ds, fs, cur, names) ==
  IF names = <<>> THEN [err |-> "", node |-> cur]
  ELSE IF cur \in DOMAIN fs THEN [err |-> "NotADirectoryError", node |-> cur]
  ELSE IF cur \notin ds THEN [err |-> "FileNotFoundError", node |-> cur]
  ELSE IF Head(names) = ".."
    THEN WalkFrom(ds, fs, IF cur = <<>> THEN cur ELSE SubSeq(cur, 1, Len(cur) - 1), Tail(names))
  ELSE WalkFrom(ds, fs, Append(cur, Head(names)), Tail(names))

Walk(ds, fs, p) == WalkFrom(ds, fs, <<>>, Components(p))

\* Path.is_dir()
IsDir(ds, fs, p) == Walk(ds, fs, p).err = "" /\ Walk(ds, fs, p).node \in ds

\* os.mkdir(p): the error raised ("" for none) and the directories afterwards
OsMkdir(ds, fs, p) ==
  LET w == Walk(ds, fs, p)
  IN IF w.err # "" THEN [err |-> w.err, dirs |-> ds]
     ELSE IF w.node \in ds \/ w.node \in DOMAIN fs THEN [err |-> "FileExistsError", dirs |-> ds]
     ELSE [err |-> "", dirs |-> ds \cup {w.node}]

\* a mkdir that never creates a missing parent
Mkdir_NoParents(ds, fs, p, parents, exist_ok) ==
  LET r == OsMkdir(ds, fs, p)
  IN IF r.err = "" \/ r.err = "FileNotFoundError" THEN r
     ELSE IF ~exist_ok \/ ~IsDir(ds, fs, p) THEN r
     ELSE [err |-> "", dirs |-> ds]

RECURSIVE Mkdir(_, _, _, _, _)
\* Path.mkdir(parents, exist_ok)
Mkdir(ds, fs, p, parents, exist_ok) ==
  LET r == OsMkdir(ds, fs, p)
  IN IF r.err = "" THEN r
     ELSE IF r.err = "FileNotFoundError"
       THEN IF ~parents \/ Parent(p) = p THEN r
            ELSE LET up == Mkdir(ds, fs, Parent(p), TRUE, TRUE)
                 IN IF up.err # "" THEN up ELSE Mkdir(up.dirs, fs, p, FALSE, exist_ok)
     ELSE IF ~exist_ok \/ ~IsDir(ds, fs, p) THEN r
     ELSE [err |-> "", dirs |-> ds]

\* an open that keeps the existing content (mode "r+b" or "ab" instead of "wb")
OpenWb_NoTruncate(ds, fs, p) ==
  LET w == Walk(ds, fs, p)
  IN IF w.err # "" THEN [err |-> w.err, files |-> fs, node |-> w.node]
     ELSE IF w.node \in ds THEN [err |-> "IsADirectoryError", files |-> fs, node |-> w.node]
     ELSE [err |-> "", node |-> w.node,
           files |-> [n \in DOMAIN fs \cup {w.node} |->
                        IF n \in DOMAIN fs THEN fs[n] ELSE <<>>]]

\* open(p, "wb"): create the file or truncate it to length zero
OpenWb(ds, fs, p) ==
  LET w == Walk(ds, fs, p)
  IN IF w.err # "" THEN [err |-> w.err, files |-> fs, node |-> w.node]
     ELSE IF w.node \in ds THEN [err |-> "IsADirectoryError", files |-> fs, node |-> w.node]
     ELSE [err |-> "", node |-> w.node,
           files |-> [n \in DOMAIN fs \cup {w.node} |-> IF n = w.node THEN <<>> ELSE fs[n]]]

\* f.write(d) followed by the close of the with block: the buffered bytes
\* are written at the file position of this descriptor, which is 0
WriteAt0(old, d) == d \o (IF Len(old) > Len(d) THEN SubSeq(old, Len(d) + 1, Len(old)) ELSE <<>>)

\* Path.resolve() in a file system without symbolic links
RECURSIVE Collapse(_, _)
Collapse(acc, names) ==
  IF names = <<>> THEN acc
  ELSE IF Head(names) = ".."
    THEN Collapse(IF acc = <<>> THEN acc ELSE SubSeq(acc, 1, Len(acc) - 1), Tail(names))
  ELSE Collapse(Append(acc, Head(names)), Tail(names))

Resolve(p) == [root |-> IF p.root = "//" THEN "//" ELSE "/", parts |-> Collapse(<<>>, Components(p))]

(***************************************************************************)
(* Inputs of the callers.                                                  *)
(***************************************************************************)
\* the values that are saved (a mapping, two texts of different length, a
\* bool, a duration and None)
SaveValueIds == {1, 5, 13, 18, 21}

NameInputs == { <<"dev_catalog_base">>, <<Sep, "x">> }
SchemaInputs == { <<"default">>, <<>> }
VolumeInputs == { <<"vol">> }

FilePathInputs ==
  { <<"landing", Sep, "f.json">>,
    <<"landing", Sep>>,
    <<"landing", Sep, "sub", Sep>>,
    <<"..", Sep, "f.json">>,
    <<Sep>>,
    <<Sep, "tmp", Sep, "out.json">> }

SaveToFilePathInputs ==
  { <<"a", Sep, "b", Sep, "c", Sep, "d", Sep, "file.json">>,
    <<Sep, "tmp", Sep, "out.json">>,
    <<Sep, "tmp">>,
    <<"f", Sep, "x.json">> }

StoragePathInputs ==
  { <<Sep, "tmp", Sep, "out.json">>,
    <<"out", Sep, "..", Sep, "rel.json">> }

\* a content that is longer than every converted value of SaveValueIds
OldContent == [i \in 1..40 |-> 120]

\* the file systems a call may start from
InitialFileSystems ==
  { [dirs |-> {<<>>, Cwd, <<"tmp">>}, files |-> << >>],
    [dirs |-> {<<>>, Cwd, <<"tmp">>, Cwd \o <<"a">>, Cwd \o <<"a", "b">>,
               <<"Volumes">>, <<"Volumes", "dev_catalog_base">>},
     files |-> (<<"tmp", "out.json">> :> OldContent)
],
    [dirs |-> {<<>>, Cwd, <<"tmp">>, <<"Volumes">>, <<"Volumes", "dev_catalog_base">>,
               <<"Volumes", "dev_catalog_base", "default">>,
               <<"Volumes", "dev_catalog_base", "default", "vol">>,
               <<"Volumes", "dev_catalog_base", "default", "vol", "landing">>},
     files |-> (Cwd \o <<"f">> :> <<1>>)
                 @@ (<<"Volumes", "dev_catalog_base", "default", "vol", "landing", "f.json">>
                       :> OldContent)] }

(***************************************************************************)
(* Records of the state.                                                   *)
(***************************************************************************)
NoPath == [root |-> "", parts |-> <<>>]

NoStorage ==
  [cls |-> "none", catalog_name |-> <<>>, schema_name |-> <<>>, volume_name |-> <<>>,
   file_path |-> NoPath]

\* caller names the composition or use-case call the save belongs to
NoFrame == [via |-> "", d |-> 0, file_path |-> NoPath, buf |-> <<>>, node |-> <<>>,
            created |-> 0, existed |-> FALSE, prev |-> <<>>, caller |-> ""]

NoConv == [d |-> 0, out |-> Return(<<>>, "")]

\* created, existed and prev remember what a save found: the number of
\* directories it had to create and the destination's previous content;
\* ref is the ClassImportPath a call made or used, returns the kind of
\* object a call handed back
NoResult == [op |-> "", status |-> "none", exc |-> "", msg |-> <<>>, d |-> 0,
             args |-> <<>>, path |-> NoPath, node |-> <<>>,
             created |-> 0, existed |-> FALSE, prev |-> <<>>, caller |-> "",
             ref |-> [module_name |-> <<>>, class_name |-> <<>>], returns |-> "None"]

Returned(op, d, args, path, node) ==
  [NoResult EXCEPT !.op = op, !.status = "return", !.d = d, !.args = args,
                   !.path = path, !.node = node]

Raised(op, exc, msg, d, args, path) ==
  [NoResult EXCEPT !.op = op, !.status = "raise", !.exc = exc, !.msg = msg, !.d = d,
                   !.args = args, !.path = path]

\* ClassImportPath and Context are NamedTuples; a dotted string is a
\* sequence of lexemes: the separator "." or a maximal dot-free run
NoClassImportPath == [module_name |-> <<>>, class_name |-> <<>>]

NoContext ==
  [environment |-> "", project_package_name |-> "",
   frames_class |-> NoClassImportPath, frames_parser_class |-> NoClassImportPath,
   storage_class |-> NoClassImportPath]

\* by is who built the use case: the caller, or a composition function
\* (which keeps it to itself)
NoUseCase ==
  [context |-> NoContext, download_client |-> "", parser |-> "", storage |-> NoStorage,
   by |-> ""]

\* the SaveToFile.execute of another pipeline run: its position and locals,
\* and how it ended
NoOther == [pc |-> "idle", d |-> 0, file_path |-> NoPath, buf |-> <<>>, node |-> <<>>,
            status |-> "none"]

Init ==
  /\ \E f \in InitialFileSystems : dirs = f.dirs /\ files = f.files
  /\ storage = NoStorage
  /\ pc = "idle"
  /\ frame = NoFrame
  /\ conv = NoConv
  /\ memo = NoConv
  /\ result = NoResult
  /\ ncalls = 0
  /\ context = NoContext
  /\ usecase = NoUseCase
  /\ trace = <<>>
  /\ other = NoOther

\* a top-level call starts when nothing is running
CanCall == pc = "idle" /\ ncalls < MaxCalls

\* bookkeeping of a ConvertToBytes call on Values[i]: the previous call may
\* be kept in memo for later comparison
Converted(i) ==
  /\ conv' = [d |-> i, out |-> ConvertToBytesOf[i]]
  /\ memo' \in {memo, conv}

(***************************************************************************)
(* converter = ConvertToBytes(); converter(d)                              *)
(***************************************************************************)
CallConvertToBytes(i) ==
  /\ CanCall
  /\ Converted(i)
  /\ ncalls' = ncalls + 1
  /\ result' = LET o == ConvertToBytesOf[i]
               IN IF o.status = "return"
                    THEN [Returned("ConvertToBytes", i, <<>>, NoPath, <<>>)
                            EXCEPT !.returns = "bytes"]
                    ELSE Raised("ConvertToBytes", o.exc, o.msg, i, <<>>, NoPath)
  /\ UNCHANGED << dirs, files, storage, pc, frame, composition >>

(***************************************************************************)
(* UnityCatalogVolumeStorageService                                        *)
(***************************************************************************)
NewUnityCatalogVolumeStorageService(catalog_name, schema_name, volume_name, file_path) ==
  /\ CanCall
  /\ ncalls' = ncalls + 1
  /\ LET self == [cls |-> "UnityCatalogVolumeStorageService",
                  catalog_name |-> catalog_name, schema_name |-> schema_name,
                  volume_name |-> volume_name, file_path |-> ParsePath(file_path)]
         args == << catalog_name, schema_name, volume_name, file_path >>
     IN IF EndsWith(AsPosix(self.file_path), Sep)
          THEN /\ storage' = NoStorage
               /\ result' = Raised("UnityCatalogVolumeStorageService", "Exception",
                                   <<"file_path should be a file, not a directory">>,
                                   0, args, NoPath)
          ELSE /\ storage' = self
               /\ result' = [Returned("UnityCatalogVolumeStorageService", 0, args, NoPath, <<>>)
                               EXCEPT !.returns = "instance"]
  /\ UNCHANGED << dirs, files, pc, frame, conv, memo, composition >>

UnityCatalogAbsolutePath(self) ==
  PathOf(<< ParsePath(<<Sep, "Volumes">>), ParsePath(self.catalog_name),
            ParsePath(self.schema_name), ParsePath(self.volume_name), self.file_path >>)

(***************************************************************************)
(* StorageService                                                          *)
(***************************************************************************)
NewStorageService(file_path) ==
  /\ CanCall
  /\ ncalls' = ncalls + 1
  /\ storage' = [NoStorage EXCEPT !.cls = "StorageService", !.file_path = ParsePath(file_path)]
  /\ result' = [Returned("StorageService", 0, <<file_path>>, NoPath, <<>>)
                  EXCEPT !.returns = "instance"]
  /\ UNCHANGED << dirs, files, pc, frame, conv, memo, composition >>

\* an _absolute_path that hands the candidate path on as it is
StorageServiceAbsolutePath_NoResolve(self) == self.file_path

\* StorageService._absolute_path
StorageServiceAbsolutePath(self) == Resolve(self.file_path)

(***************************************************************************)
(* SaveToFile.execute, one action per statement.  The first statement      *)
(* (the conversion) reads no shared state and is taken with the call.      *)
(***************************************************************************)
\* an execute that goes on to the directory creation although the
\* conversion raised
SaveToFileEnterFrom_ConvertLate(caller, via, i, file_path) ==
  /\ Converted(i)
  /\ pc' = "mkdir"
  /\ frame' = [NoFrame EXCEPT !.via = via, !.d = i, !.file_path = file_path,
                               !.buf = ConvertToBytesOf[i].bytes, !.caller = caller]
  /\ UNCHANGED result

SaveToFileEnterFrom(caller, via, i, file_path) ==
  LET o == ConvertToBytesOf[i]
  IN /\ Converted(i)
     /\ IF o.status = "raise"
          THEN /\ pc' = "idle"
               /\ frame' = NoFrame
               /\ result' = [Raised(via, o.exc, o.msg, i, <<>>, file_path)
                               EXCEPT !.caller = caller]
          ELSE /\ pc' = "mkdir"
               /\ frame' = [NoFrame EXCEPT !.via = via, !.d = i, !.file_path = file_path,
                                            !.buf = o.bytes, !.caller = caller]
               /\ UNCHANGED result

\* a save called directly
SaveToFileEnter(via, i, file_path) == SaveToFileEnterFrom("", via, i, file_path)

\* save_to_file = SaveToFile(); save_to_file(d, file_path)
CallSaveToFile(i, file_path) ==
  /\ CanCall
  /\ ncalls' = ncalls + 1
  /\ SaveToFileEnter("SaveToFile", i, ParsePath(file_path))
  /\ UNCHANGED << dirs, files, storage, composition >>

UnityCatalogSave(i) ==
  /\ CanCall
  /\ storage.cls = "UnityCatalogVolumeStorageService"
  /\ ncalls' = ncalls + 1
  /\ SaveToFileEnter("UnityCatalogVolumeStorageService.save", i, UnityCatalogAbsolutePath(storage))
  /\ UNCHANGED << dirs, files, storage, composition >>

StorageServiceSave(i) ==
  /\ CanCall
  /\ storage.cls = "StorageService"
  /\ ncalls' = ncalls + 1
  /\ SaveToFileEnter("StorageService.save", i, StorageServiceAbsolutePath(storage))
  /\ UNCHANGED << dirs, files, storage, composition >>

\* file_path.parent.mkdir(parents=True, exist_ok=True)
SaveMkdir ==
  /\ pc = "mkdir"
  /\ LET r == Mkdir(dirs, files, Parent(frame.file_path), TRUE, TRUE)
     IN IF r.err # ""
          THEN /\ pc' = "idle"
               /\ frame' = NoFrame
               /\ result' = [Raised(frame.via, r.err, <<>>, frame.d, <<>>, frame.file_path)
                               EXCEPT !.caller = frame.caller]
               /\ dirs' = r.dirs
          ELSE /\ pc' = "open"
               /\ dirs' = r.dirs
               /\ frame' = [frame EXCEPT !.created = Cardinality(r.dirs \ dirs)]
               /\ UNCHANGED result
  /\ UNCHANGED << files, storage, conv, memo, ncalls, composition >>

\* with file_path.open("wb") as f:
SaveOpen ==
  /\ pc = "open"
  /\ LET r == OpenWb(dirs, files, frame.file_path)
     IN IF r.err # ""
          THEN /\ pc' = "idle"
               /\ frame' = NoFrame
               /\ result' = [Raised(frame.via, r.err, <<>>, frame.d, <<>>, frame.file_path)
                               EXCEPT !.caller = frame.caller]
               /\ UNCHANGED files
          ELSE /\ pc' = "write"
               /\ files' = r.files
               /\ frame' = [frame EXCEPT !.node = r.node,
                                          !.existed = r.node \in DOMAIN files,
                                          !.prev = IF r.node \in DOMAIN files
                                                     THEN files[r.node] ELSE <<>>]
               /\ UNCHANGED result
  /\ UNCHANGED << dirs, storage, conv, memo, ncalls, composition >>

\* a write through a file opened for appending
SaveWrite_Append ==
  /\ pc = "write"
  /\ files' = [files EXCEPT ![frame.node] = frame.prev \o frame.buf]
  /\ pc' = "idle"
  /\ frame' = NoFrame
  /\ result' = [Returned(frame.via, frame.d, <<>>, frame.file_path, frame.node)
                  EXCEPT !.created = frame.created, !.existed = frame.existed,
                         !.prev = frame.prev, !.caller = frame.caller]
  /\ UNCHANGED << dirs, storage, conv, memo, ncalls, composition >>

\* f.write(d), and leaving the with block
SaveWrite ==
  /\ pc = "write"
  /\ files' = [files EXCEPT ![frame.node] = WriteAt0(files[frame.node], frame.buf)]
  /\ pc' = "idle"
  /\ frame' = NoFrame
  /\ result' = [Returned(frame.via, frame.d, <<>>, frame.file_path, frame.node)
                  EXCEPT !.created = frame.created, !.existed = frame.existed,
                         !.prev = frame.prev, !.caller = frame.caller]
  /\ UNCHANGED << dirs, storage, conv, memo, ncalls, composition >>

Next ==
  \/ \E i \in ValueIds : CallConvertToBytes(i)
  \/ \E c \in NameInputs, s \in SchemaInputs, v \in VolumeInputs, f \in FilePathInputs :
       NewUnityCatalogVolumeStorageService(c, s, v, f)
  \/ \E f \in StoragePathInputs : NewStorageService(f)
  \/ \E i \in SaveValueIds, f \in SaveToFilePathInputs : CallSaveToFile(i, f)
  \/ \E i \in SaveValueIds : UnityCatalogSave(i)
  \/ \E i \in SaveValueIds : StorageServiceSave(i)
  \/ SaveMkdir
  \/ SaveOpen
  \/ SaveWrite

Spec == Init /\ [][Next]_vars

(***************************************************************************)
(* composition/context.py.  A dotted string is a sequence of lexemes: the  *)
(* separator "." or a maximal dot-free run ("example_project", "Foo").     *)
(***************************************************************************)
Dot == "."

RECURSIVE RFindFrom(_, _, _)
\* the highest 0-based index below n at which s holds c, -1 when there is none
RFindFrom(s, c, n) ==
  IF n = 0 THEN 0 - 1 ELSE IF s[n] = c THEN n - 1 ELSE RFindFrom(s, c, n - 1)

\* s.rfind(c)
RFind(s, c) == RFindFrom(s, c, Len(s))

RECURSIVE FindFrom(_, _, _)
FindFrom(s, c, n) ==
  IF n > Len(s) THEN 0 - 1 ELSE IF s[n] = c THEN n - 1 ELSE FindFrom(s, c, n + 1)

\* s.find(c)
Find(s, c) == FindFrom(s, c, 1)

\* s[:i] and s[i:] for 0 <= i <= len(s)
SliceTo(s, i) == SubSeq(s, 1, i)
SliceFrom(s, i) == SubSeq(s, i + 1, Len(s))

\* a from_string that splits at the first "."
FromString_FirstDot(s) ==
  LET first_dot == Find(s, Dot)
  IN IF first_dot = 0 - 1
       THEN [module_name |-> <<Dot>>, class_name |-> s]
       ELSE [module_name |-> SliceTo(s, first_dot), class_name |-> SliceFrom(s, first_dot + 1)]

\* ClassImportPath.from_string
FromString(s) ==
  LET last_dot == RFind(s, Dot)
  IN IF last_dot = 0 - 1
       THEN [module_name |-> <<Dot>>, class_name |-> s]
       ELSE [module_name |-> SliceTo(s, last_dot), class_name |-> SliceFrom(s, last_dot + 1)]

\* a __str__ that leaves out the "." between namespace and name
ClassImportPathStr_NoDot(self) == self.module_name \o self.class_name

\* ClassImportPath.__str__
ClassImportPathStr(self) == self.module_name \o <<Dot>> \o self.class_name

(***************************************************************************)
(* The modules of the repository that importlib can load, each with the    *)
(* names its namespace holds after the module body has run.  A package     *)
(* gains a submodule's name only once that submodule has been imported;    *)
(* the callers of this model never ask a package for a submodule.          *)
(***************************************************************************)
AdapterPackage == <<"example_project", Dot, "adapter">>
GraphQLModule == AdapterPackage \o <<Dot, "interface", Dot, "graphql_service">>
FrameModule == AdapterPackage \o <<Dot, "interface", Dot, "frame_service">>
ParserModule == AdapterPackage \o <<Dot, "parser">>
StorageModule == AdapterPackage \o <<Dot, "storage">>

Modules ==
  (<<"example_project">> :> {})
    @@ (AdapterPackage :> {})
    @@ (GraphQLModule :> {"Any", "ApiClass", "GraphQLService"})
    @@ (FrameModule :> {"Any", "ApiClass", "FrameService"})
    @@ (ParserModule :> {"AsIsParser"})
    @@ (StorageModule :>
          {"Any", "Protocol", "Path", "json", "datetime", "date", "timedelta", "Storage",
           "UnityCatalogStorage", "Command", "ConvertToBytes", "SaveToFile",
           "UnityCatalogVolumeStorageService", "StorageService"})

Loaded(name) == [exc |-> "", module |-> name]
NotLoaded(exc, name) == [exc |-> exc, module |-> name]

\* Running a module body.  adapter/parser/__init__.py annotates a parameter
\* with Any and imports nothing: an interpreter that evaluates annotations
\* when the def statement runs (CPython up to 3.13) raises NameError, one
\* that defers them (CPython 3.14) loads the module.
ModuleBody(name) ==
  IF name = ParserModule THEN {NotLoaded("NameError", name), Loaded(name)} ELSE {Loaded(name)}

\* importlib.import_module(name) without a package argument: the outcomes
ImportModule(name) ==
  IF name = <<>> THEN {NotLoaded("ValueError", name)}
  ELSE IF Head(name) = Dot THEN {NotLoaded("TypeError", name)}
  ELSE IF name \notin DOMAIN Modules THEN {NotLoaded("ModuleNotFoundError", name)}
  ELSE ModuleBody(name)

\* ClassImportPath.import_class: import the module, then getattr
ImportClass(self) ==
  { IF m.exc # "" THEN [exc |-> m.exc, cls |-> ""]
    ELSE IF Len(self.class_name) = 1 /\ self.class_name[1] \in Modules[m.module]
      THEN [exc |-> "", cls |-> self.class_name[1]]
    ELSE [exc |-> "AttributeError", cls |-> ""] : m \in ImportModule(self.module_name) }

\* Context.base_catalog_name for the environments of this model: the tag
\* followed by "_catalog_base", as a path string
BaseCatalogName(environment) ==
  CASE environment = "dev" -> <<"dev_catalog_base">>
    [] environment = "prod" -> <<"prod_catalog_base">>
    [] environment = "/Volumes/dev" -> <<Sep, "Volumes", Sep, "dev_catalog_base">>

\* the three dotted strings of Context.default and Context.notebook_default
DefaultFramesClass ==
  <<"example_project", Dot, "interface", Dot, "graphql_service", Dot, "GraphQLService">>
DefaultFramesParserClass == <<"example_project", Dot, "parser", Dot, "AsIsParser">>
DefaultStorageClass == <<"example_project", Dot, "storage", Dot, "StorageService">>

NewContextOf(environment, frames, parser, store) ==
  [environment |-> environment, project_package_name |-> "example_project",
   frames_class |-> FromString(frames), frames_parser_class |-> FromString(parser),
   storage_class |-> FromString(store)]

\* Context.default() and Context.notebook_default()
ContextDefaultValue ==
  NewContextOf("dev", DefaultFramesClass, DefaultFramesParserClass, DefaultStorageClass)
\* a notebook preset that picks the Unity Catalog storage adapter
ContextNotebookDefaultValue_UnityCatalog ==
  NewContextOf("dev", DefaultFramesClass, DefaultFramesParserClass,
               <<"example_project", Dot, "storage", Dot, "UnityCatalogVolumeStorageService">>)

ContextNotebookDefaultValue ==
  NewContextOf("dev", DefaultFramesClass, DefaultFramesParserClass, DefaultStorageClass)

(***************************************************************************)
(* What the latest composition or use-case call did.  d and out are        *)
(* indices into Values (0 for none).                                       *)
(***************************************************************************)
Ev(ev, who, obj, d, out, path) ==
  [ev |-> ev, who |-> who, obj |-> obj, d |-> d, out |-> out, path |-> path]

Resolved(role, o) == Ev("resolve", role, IF o.exc = "" THEN o.cls ELSE o.exc, 0, 0, NoPath)
Instantiated(cls, shape) == Ev("new", cls, shape, 0, 0, NoPath)
Printed(text) == Ev("print", "print", text, 0, 0, NoPath)

(***************************************************************************)
(* composition/frames.py                                                   *)
(***************************************************************************)
\* an import_frame_service_classes that resolves the storage class before
\* the parser class
ImportFrameServiceClasses_StorageFirst(ctx) ==
  UNION { IF a.exc # ""
            THEN {[exc |-> a.exc, classes |-> <<>>, trace |-> <<Resolved("frames_class", a)>>]}
          ELSE UNION { IF c.exc # ""
                         THEN {[exc |-> c.exc, classes |-> <<>>,
                                trace |-> <<Resolved("frames_class", a),
                                            Resolved("storage_class", c)>>]}
                       ELSE {[exc |-> b.exc,
                              classes |-> IF b.exc = "" THEN <<a.cls, b.cls, c.cls>> ELSE <<>>,
                              trace |-> <<Resolved("frames_class", a),
                                          Resolved("storage_class", c),
                                          Resolved("frames_parser_class", b)>>]
                               : b \in ImportClass(ctx.frames_parser_class)}
                         : c \in ImportClass(ctx.storage_class) }
            : a \in ImportClass(ctx.frames_class) }

\* import_frame_service_classes(context): the outcomes, with the
\* resolutions made in order
ImportFrameServiceClasses(ctx) ==
  UNION { IF a.exc # ""
            THEN {[exc |-> a.exc, classes |-> <<>>, trace |-> <<Resolved("frames_class", a)>>]}
          ELSE UNION { IF b.exc # ""
                         THEN {[exc |-> b.exc, classes |-> <<>>,
                                trace |-> <<Resolved("frames_class", a),
                                            Resolved("frames_parser_class", b)>>]}
                       ELSE {[exc |-> c.exc,
                              classes |-> IF c.exc = "" THEN <<a.cls, b.cls, c.cls>> ELSE <<>>,
                              trace |-> <<Resolved("frames_class", a),
                                          Resolved("frames_parser_class", b),
                                          Resolved("storage_class", c)>>]
                               : c \in ImportClass(ctx.storage_class)}
                         : b \in ImportClass(ctx.frames_parser_class) }
            : a \in ImportClass(ctx.frames_class) }

\* the classes of the repository that can be called without arguments; a
\* Protocol, a class whose __init__ has required parameters and a module
\* raise TypeError
ZeroArgClasses == {"GraphQLService", "FrameService", "AsIsParser", "SaveToFile", "ConvertToBytes"}

\* cls()
Instantiate0(cls) ==
  IF cls \in ZeroArgClasses THEN [exc |-> "", obj |-> cls] ELSE [exc |-> "TypeError", obj |-> ""]

\* cls.storage_type, "" when the class has no such attribute (the
\* protocols only annotate it)
StorageTypeOf(cls) ==
  CASE cls = "UnityCatalogVolumeStorageService" -> "unity-catalog-volume"
    [] cls = "StorageService" -> "linux-path"
    [] OTHER -> ""

\* a predicate that takes every tagged class for a Unity Catalog storage
IsUnityCatalogStorage_AnyTag(storage_class) == StorageTypeOf(storage_class) # ""

\* is_unity_catalog_storage(storage_class), for a class that has the tag
IsUnityCatalogStorage(storage_class) == StorageTypeOf(storage_class) = "unity-catalog-volume"

LandingFile == <<"landing_layer_test", Sep, "2025_file.json">>
FilesystemFile ==
  <<Sep, "Volumes", Sep, "dev_catalog_base", Sep, "default", Sep, "sales-reporting-gen2-temp",
    Sep, "landing_layer_test", Sep, "2025_file.json">>

\* the storage_class(...) call of the Unity Catalog branch
NewUnityCatalogFromContext(ctx) ==
  [cls |-> "UnityCatalogVolumeStorageService", catalog_name |-> BaseCatalogName(ctx.environment),
   schema_name |-> <<"default">>, volume_name |-> <<"sales-reporting-gen2-temp">>,
   file_path |-> ParsePath(LandingFile)]

\* the storage_class(file_path=...) call of the other branch
NewFilesystemStorage(cls) ==
  [NoStorage EXCEPT !.cls = cls, !.file_path = ParsePath(FilesystemFile)]

Wired(uc, trace0) == [exc |-> "", usecase |-> uc, trace |-> trace0]
NotWired(exc, trace0) == [exc |-> exc, usecase |-> NoUseCase, trace |-> trace0]

\* a wiring that calls download() as soon as the client exists
Wire_EagerDownload(ctx, r) ==
  IF r.exc # "" THEN NotWired(r.exc, r.trace)
  ELSE
    LET client == Instantiate0(r.classes[1])
        parser == Instantiate0(r.classes[2])
        store  == r.classes[3]
        t1     == r.trace \o <<Instantiated(r.classes[1], "zero-arg"),
                                Ev("download", r.classes[1], "", 0, 0, NoPath)>>
        t2     == Append(t1, Instantiated(r.classes[2], "zero-arg"))
    IN IF client.exc # "" THEN NotWired(client.exc, r.trace)
       ELSE IF parser.exc # "" THEN NotWired(parser.exc, t1)
       ELSE IF StorageTypeOf(store) = "" THEN NotWired("AttributeError", t2)
       ELSE IF IsUnityCatalogStorage(store)
         THEN LET self == NewUnityCatalogFromContext(ctx)
                  t3   == t2 \o <<Printed("Unity Catalog Volume")>>
              IN IF EndsWith(AsPosix(self.file_path), Sep) THEN NotWired("Exception", t3)
                 ELSE Wired([context |-> ctx, download_client |-> client.obj,
                             parser |-> parser.obj, storage |-> self, by |-> "ingest"],
                            Append(t3, Instantiated(store, "four-parameter")))
       ELSE Wired([context |-> ctx, download_client |-> client.obj, parser |-> parser.obj,
                   storage |-> NewFilesystemStorage(store), by |-> "ingest"],
                  t2 \o <<Printed("Filesystem"), Instantiated(store, "one-path")>>)

\* ingest_frames_from_api_into_landing_layer up to the construction of the
\* use case, for one outcome r of the resolutions
Wire(ctx, r) ==
  IF r.exc # "" THEN NotWired(r.exc, r.trace)
  ELSE
    LET client == Instantiate0(r.classes[1])
        parser == Instantiate0(r.classes[2])
        store  == r.classes[3]
        t1     == Append(r.trace, Instantiated(r.classes[1], "zero-arg"))
        t2     == Append(t1, Instantiated(r.classes[2], "zero-arg"))
    IN IF client.exc # "" THEN NotWired(client.exc, r.trace)
       ELSE IF parser.exc # "" THEN NotWired(parser.exc, t1)
       ELSE IF StorageTypeOf(store) = "" THEN NotWired("AttributeError", t2)
       ELSE IF IsUnityCatalogStorage(store)
         THEN LET self == NewUnityCatalogFromContext(ctx)
                  t3   == t2 \o <<Printed("Unity Catalog Volume")>>
              IN IF EndsWith(AsPosix(self.file_path), Sep) THEN NotWired("Exception", t3)
                 ELSE Wired([context |-> ctx, download_client |-> client.obj,
                             parser |-> parser.obj, storage |-> self, by |-> "ingest"],
                            Append(t3, Instantiated(store, "four-parameter")))
       ELSE Wired([context |-> ctx, download_client |-> client.obj, parser |-> parser.obj,
                   storage |-> NewFilesystemStorage(store), by |-> "ingest"],
                  t2 \o <<Printed("Filesystem"), Instantiated(store, "one-path")>>)

Compose(ctx) == { Wire(ctx, r) : r \in ImportFrameServiceClasses(ctx) }

(***************************************************************************)
(* The stages of a pipeline.  Besides the classes of the repository the    *)
(* caller may pass objects of its own that satisfy the protocols of        *)
(* adapter/protocols.py: a source that returns StubPayload, a source and   *)
(* a parser that raise, and parsers that return a value of their own.     *)
(***************************************************************************)
StageOk(out, prints) == [exc |-> "", out |-> out, prints |-> prints]
StageRaised(exc) == [exc |-> exc, out |-> 0, prints |-> <<>>]

\* client.download()
Download(client) ==
  CASE client = "GraphQLService" ->
         StageOk(GraphQLPayloadId, <<Printed("GraphQLService.get() has been called")>>)
    [] client = "FrameService" ->
         StageOk(FramePayloadId, <<Printed("FrameService.get() has been called")>>)
    [] client = "StubSource" -> StageOk(StubPayloadId, <<>>)
    [] client = "FailingSource" -> StageRaised("ConnectionError")
    [] OTHER -> StageRaised("AttributeError")

\* what the caller's FixedParser returns for every input
FixedParserOutput == IdOf(PyStr(<<"h", "i">>))

\* what the caller's SetParser returns: a value ConvertToBytes rejects
SetParserOutput == IdOf([type |-> "set", val |-> {}])

\* an AsIsParser that hands back another value than it was given
AsIsParserParse_Other(s) == FixedParserOutput

\* AsIsParser.parse(s)
AsIsParserParse(s) == s

\* parser.parse(s)
Parse(parser, s) ==
  CASE parser = "AsIsParser" -> StageOk(AsIsParserParse(s), <<>>)
    [] parser = "FixedParser" -> StageOk(FixedParserOutput, <<>>)
    [] parser = "SetParser" -> StageOk(SetParserOutput, <<>>)
    [] parser = "FailingParser" -> StageRaised("ValueError")
    [] OTHER -> StageRaised("AttributeError")

\* the path storage.save hands to SaveToFile
SavePathOf(store) ==
  IF store.cls = "UnityCatalogVolumeStorageService" THEN UnityCatalogAbsolutePath(store)
  ELSE StorageServiceAbsolutePath(store)

Stopped(exc, trace0) == [exc |-> exc, trace |-> trace0, d |-> 0]

\* an execute that saves what download returned
DownloadAndStoreRun_SaveRaw(self) ==
  LET data   == Download(self.download_client)
      parsed == Parse(self.parser, data.out)
      t1     == <<Ev("download", self.download_client, "", 0, data.out, NoPath)>> \o data.prints
      t2     == Append(t1, Ev("parse", self.parser, "", data.out, parsed.out, NoPath))
  IN IF data.exc # "" THEN Stopped(data.exc, t1)
     ELSE IF parsed.exc # "" THEN Stopped(parsed.exc, t2)
     ELSE [exc |-> "", d |-> data.out,
           trace |-> Append(t2, Ev("save", self.storage.cls, "", data.out, 0,
                                   SavePathOf(self.storage)))]

\* an execute that still calls parse after download has raised
DownloadAndStoreRun_NoStop(self) ==
  LET data   == Download(self.download_client)
      parsed == Parse(self.parser, data.out)
      t1     == <<Ev("download", self.download_client, "", 0, data.out, NoPath)>> \o data.prints
      t2     == Append(t1, Ev("parse", self.parser, "", data.out, parsed.out, NoPath))
  IN IF data.exc # "" THEN Stopped(data.exc, t2)
     ELSE IF parsed.exc # "" THEN Stopped(parsed.exc, t2)
     ELSE [exc |-> "", d |-> parsed.out,
           trace |-> Append(t2, Ev("save", self.storage.cls, "", parsed.out, 0,
                                   SavePathOf(self.storage)))]

\* DownloadAndStore.execute up to the call of storage.save: the stage
\* calls made in order, the exception that ended them ("" for none) and
\* the value handed to save
DownloadAndStoreRun(self) ==
  LET data   == Download(self.download_client)
      parsed == Parse(self.parser, data.out)
      t1     == <<Ev("download", self.download_client, "", 0, data.out, NoPath)>> \o data.prints
      t2     == Append(t1, Ev("parse", self.parser, "", data.out, parsed.out, NoPath))
  IN IF data.exc # "" THEN Stopped(data.exc, t1)
     ELSE IF parsed.exc # "" THEN Stopped(parsed.exc, t2)
     ELSE [exc |-> "", d |-> parsed.out,
           trace |-> Append(t2, Ev("save", self.storage.cls, "", parsed.out, 0,
                                   SavePathOf(self.storage)))]

\* the name under which storage.save enters SaveToFile
SaveVia(store) ==
  IF store.cls = "UnityCatalogVolumeStorageService"
    THEN "UnityCatalogVolumeStorageService.save" ELSE "StorageService.save"

\* a composition call starts when nothing is running
CanCompose == pc = "idle" /\ ncalls < MaxPipelineCalls

\* self.execute() for the use case self, reached from the top-level call
\* caller after the steps before
ExecuteFrom(caller, self, before) ==
  \E run \in {DownloadAndStoreRun(self)} :
     /\ trace' = before \o run.trace
     /\ IF run.exc # ""
          THEN /\ result' = [Raised("DownloadAndStore.execute", run.exc, <<>>, 0, <<>>, NoPath)
                               EXCEPT !.caller = caller]
               /\ UNCHANGED << pc, frame, conv, memo >>
          ELSE \E via \in {SaveVia(self.storage)}, file_path \in {SavePathOf(self.storage)} :
                 SaveToFileEnterFrom(caller, via, run.d, file_path)

(***************************************************************************)
(* The calls of the composition layer.                                     *)
(***************************************************************************)
\* the dotted strings the callers pass
DottedInputs ==
  { <<"Foo">>,
    <<Dot, "Foo">>,
    <<"a", Dot, "b", Dot, "C">>,
    StorageModule \o <<Dot, "StorageService">>,
    StorageModule \o <<Dot, "Nope">>,
    ParserModule \o <<Dot, "AsIsParser">>,
    DefaultStorageClass,
    <<"Foo", Dot>>,
    <<Dot>>,
    <<"a", Dot, Dot, "b">> }

\* ClassImportPath.from_string(s)
ClassImportPathFromString(s) ==
  /\ CanCompose
  /\ ncalls' = ncalls + 1
  /\ trace' = <<>>
  /\ result' = [Returned("ClassImportPath.from_string", 0, <<s>>, NoPath, <<>>)
                  EXCEPT !.ref = FromString(s), !.returns = "ClassImportPath"]
  /\ UNCHANGED << dirs, files, storage, pc, frame, conv, memo, context, usecase, other >>

\* ref.import_class() on the reference the latest from_string returned
ClassImportPathImportClass ==
  /\ CanCompose
  /\ result.op = "ClassImportPath.from_string"
  /\ ncalls' = ncalls + 1
  /\ \E o \in ImportClass(result.ref) :
       /\ trace' = <<Resolved("import_class", o)>>
       /\ result' = IF o.exc = ""
                      THEN [Returned("ClassImportPath.import_class", 0, <<o.cls>>, NoPath, <<>>)
                              EXCEPT !.ref = result.ref, !.returns = "class"]
                      ELSE [Raised("ClassImportPath.import_class", o.exc, <<>>, 0, <<>>, NoPath)
                              EXCEPT !.ref = result.ref]
  /\ UNCHANGED << dirs, files, storage, pc, frame, conv, memo, context, usecase, other >>

\* str(ref) on the reference the latest from_string returned; args keeps
\* the string that reference was made from, followed by the string returned
StrClassImportPath ==
  /\ CanCompose
  /\ result.op = "ClassImportPath.from_string"
  /\ ncalls' = ncalls + 1
  /\ trace' = <<>>
  /\ result' = [Returned("ClassImportPath.__str__", 0,
                         <<result.args[1], ClassImportPathStr(result.ref)>>, NoPath, <<>>)
                  EXCEPT !.ref = result.ref, !.returns = "str"]
  /\ UNCHANGED << dirs, files, storage, pc, frame, conv, memo, context, usecase, other >>

\* ClassImportPath.from_string(t) on the string t the latest str(ref) returned
FromStringOfStr ==
  /\ CanCompose
  /\ result.op = "ClassImportPath.__str__"
  /\ ncalls' = ncalls + 1
  /\ trace' = <<>>
  /\ result' = [Returned("ClassImportPath.from_string(str)", 0, result.args, NoPath, <<>>)
                  EXCEPT !.ref = FromString(result.args[2]), !.returns = "ClassImportPath"]
  /\ UNCHANGED << dirs, files, storage, pc, frame, conv, memo, context, usecase, other >>

\* the configurations the callers build besides the two presets
ContextInputs ==
  { NewContextOf("dev", GraphQLModule \o <<Dot, "GraphQLService">>,
                 ParserModule \o <<Dot, "AsIsParser">>, StorageModule \o <<Dot, "StorageService">>),
    NewContextOf("prod", FrameModule \o <<Dot, "FrameService">>,
                 ParserModule \o <<Dot, "AsIsParser">>,
                 StorageModule \o <<Dot, "UnityCatalogVolumeStorageService">>),
    NewContextOf("dev", FrameModule \o <<Dot, "FrameService">>,
                 StorageModule \o <<Dot, "SaveToFile">>,
                 StorageModule \o <<Dot, "UnityCatalogVolumeStorageService">>),
    NewContextOf("dev", GraphQLModule \o <<Dot, "GraphQLService">>,
                 GraphQLModule \o <<Dot, "GraphQLService">>,
                 StorageModule \o <<Dot, "StorageService">>),
    NewContextOf("dev", GraphQLModule \o <<Dot, "GraphQLService">>,
                 FrameModule \o <<Dot, "FrameService">>, StorageModule \o <<Dot, "Storage">>),
    NewContextOf("dev", StorageModule \o <<Dot, "StorageService">>,
                 ParserModule \o <<Dot, "AsIsParser">>, StorageModule \o <<Dot, "StorageService">>),
    NewContextOf("/Volumes/dev", FrameModule \o <<Dot, "FrameService">>,
                 ParserModule \o <<Dot, "AsIsParser">>,
                 StorageModule \o <<Dot, "UnityCatalogVolumeStorageService">>),
    NewContextOf("prod", FrameModule \o <<Dot, "FrameService">>,
                 ParserModule \o <<Dot, "AsIsParser">>,
                 StorageModule \o <<Dot, "StorageService">>),
    NewContextOf("dev", <<"Foo">>, ParserModule \o <<Dot, "AsIsParser">>,
                 StorageModule \o <<Dot, "StorageService">>),
    NewContextOf("dev", GraphQLModule \o <<Dot, "GraphQLService">>,
                 GraphQLModule \o <<Dot, "GraphQLService">>, StorageModule \o <<Dot, "Nope">>) }

\* Context(environment=..., ...) with references made by from_string
NewContext(c) ==
  /\ CanCompose
  /\ ncalls' = ncalls + 1
  /\ context' = c
  /\ trace' = <<>>
  /\ result' = [Returned("Context", 0, <<>>, NoPath, <<>>) EXCEPT !.returns = "instance"]
  /\ UNCHANGED << dirs, files, storage, pc, frame, conv, memo, usecase, other >>

\* Context.default()
ContextDefault ==
  /\ CanCompose
  /\ ncalls' = ncalls + 1
  /\ context' = ContextDefaultValue
  /\ trace' = <<>>
  /\ result' = [Returned("Context.default", 0, <<>>, NoPath, <<>>) EXCEPT !.returns = "instance"]
  /\ UNCHANGED << dirs, files, storage, pc, frame, conv, memo, usecase, other >>

\* Context.notebook_default()
ContextNotebookDefault ==
  /\ CanCompose
  /\ ncalls' = ncalls + 1
  /\ context' = ContextNotebookDefaultValue
  /\ trace' = <<>>
  /\ result' = [Returned("Context.notebook_default", 0, <<>>, NoPath, <<>>)
                  EXCEPT !.returns = "instance"]
  /\ UNCHANGED << dirs, files, storage, pc, frame, conv, memo, usecase, other >>

\* ingest_frames_from_api_into_landing_layer(context=ctx), reached from the
\* top-level call caller; the use case it builds is kept in usecase
IngestFrom(caller, ctx) ==
  \E w \in Compose(ctx) :
    IF w.exc # ""
      THEN /\ trace' = w.trace
           /\ result' = [Raised("ingest_frames_from_api_into_landing_layer", w.exc, <<>>, 0,
                                <<>>, NoPath) EXCEPT !.caller = caller]
           /\ UNCHANGED << pc, frame, conv, memo, usecase >>
      ELSE /\ usecase' = w.usecase
           /\ ExecuteFrom(caller, w.usecase, w.trace)

IngestFramesFromApiIntoLandingLayer ==
  /\ CanCompose
  /\ context # NoContext
  /\ ncalls' = ncalls + 1
  /\ IngestFrom("ingest_frames_from_api_into_landing_layer", context)
  /\ UNCHANGED << dirs, files, storage, context, other >>

\* main()
Main ==
  /\ CanCompose
  /\ ncalls' = ncalls + 1
  /\ IngestFrom("main", ContextDefaultValue)
  /\ UNCHANGED << dirs, files, storage, context, other >>

SourceInputs == {"GraphQLService", "FrameService", "StubSource", "FailingSource"}
ParserInputs == {"AsIsParser", "FixedParser", "SetParser", "FailingParser"}

\* the module whose import gives the caller the class of obj; the
\* caller's own objects need none
CanObtain(obj) ==
  \/ obj \in {"StubSource", "FailingSource", "FixedParser", "SetParser", "FailingParser"}
  \/ \E name \in DOMAIN Modules :
       obj \in Modules[name] /\ Loaded(name) \in ImportModule(name)

\* DownloadAndStore(context=context, download_client=..., parser=...,
\* storage=storage) with the storage adapter the caller holds
NewDownloadAndStore(download_client, parser) ==
  /\ CanCompose
  /\ storage.cls # "none"
  /\ CanObtain(download_client) /\ CanObtain(parser)
  /\ ncalls' = ncalls + 1
  /\ usecase' = [context |-> context, download_client |-> download_client, parser |-> parser,
                 storage |-> storage, by |-> "caller"]
  /\ trace' = <<>>
  /\ result' = [Returned("DownloadAndStore", 0, <<>>, NoPath, <<>>) EXCEPT !.returns = "instance"]
  /\ UNCHANGED << dirs, files, storage, pc, frame, conv, memo, context, other >>

\* download_and_store.execute() on the use case the caller holds
DownloadAndStoreExecute ==
  /\ CanCompose
  /\ usecase.by = "caller"
  /\ ncalls' = ncalls + 1
  /\ ExecuteFrom("DownloadAndStore.execute", usecase, <<>>)
  /\ UNCHANGED << dirs, files, storage, context, usecase, other >>

NextPipeline ==
  \/ \E s \in DottedInputs : ClassImportPathFromString(s)
  \/ ClassImportPathImportClass
  \/ StrClassImportPath
  \/ FromStringOfStr
  \/ \E c \in ContextInputs : NewContext(c)
  \/ ContextDefault
  \/ ContextNotebookDefault
  \/ IngestFramesFromApiIntoLandingLayer
  \/ Main
  \/ \E f \in StoragePathInputs : NewStorageService(f)
  \/ \E c \in SourceInputs, p \in ParserInputs : NewDownloadAndStore(c, p)
  \/ DownloadAndStoreExecute
  \/ SaveMkdir
  \/ SaveOpen
  \/ SaveWrite

SpecPipeline == Init /\ [][NextPipeline]_vars

(***************************************************************************)
(* Two pipeline runs.  The other run executes SaveToFile.execute once, on  *)
(* the same file system, statement by statement like the first.            *)
(***************************************************************************)
OtherRaised == [NoOther EXCEPT !.status = "raise"]

\* save_to_file(d, file_path) in the other run
OtherCallSaveToFile(i, file_path) ==
  /\ other.pc = "idle" /\ other.status = "none"
  /\ LET o == ConvertToBytesOf[i]
     IN other' = IF o.status = "raise" THEN OtherRaised
                 ELSE [NoOther EXCEPT !.pc = "mkdir", !.d = i,
                                      !.file_path = ParsePath(file_path), !.buf = o.bytes]
  /\ UNCHANGED << dirs, files, storage, pc, frame, conv, memo, result, ncalls,
                  context, usecase, trace >>

\* file_path.parent.mkdir(parents=True, exist_ok=True) in the other run
OtherMkdir ==
  /\ other.pc = "mkdir"
  /\ LET r == Mkdir(dirs, files, Parent(other.file_path), TRUE, TRUE)
     IN /\ dirs' = r.dirs
        /\ other' = IF r.err # "" THEN OtherRaised ELSE [other EXCEPT !.pc = "open"]
  /\ UNCHANGED << files, storage, pc, frame, conv, memo, result, ncalls,
                  context, usecase, trace >>

\* file_path.open("wb") in the other run
OtherOpen ==
  /\ other.pc = "open"
  /\ LET r == OpenWb(dirs, files, other.file_path)
     IN IF r.err # ""
          THEN other' = OtherRaised /\ UNCHANGED files
          ELSE other' = [other EXCEPT !.pc = "write", !.node = r.node] /\ files' = r.files
  /\ UNCHANGED << dirs, storage, pc, frame, conv, memo, result, ncalls,
                  context, usecase, trace >>

\* f.write(d) and the end of the with block in the other run
OtherWrite ==
  /\ other.pc = "write"
  /\ files' = [files EXCEPT ![other.node] = WriteAt0(files[other.node], other.buf)]
  /\ other' = [other EXCEPT !.pc = "idle", !.status = "return"]
  /\ UNCHANGED << dirs, storage, pc, frame, conv, memo, result, ncalls,
                  context, usecase, trace >>

NextConcurrent ==
  \/ \E i \in SaveValueIds, f \in SaveToFilePathInputs : CallSaveToFile(i, f)
  \/ SaveMkdir
  \/ SaveOpen
  \/ SaveWrite
  \/ \E i \in SaveValueIds, f \in SaveToFilePathInputs : OtherCallSaveToFile(i, f)
  \/ OtherMkdir
  \/ OtherOpen
  \/ OtherWrite

SpecConcurrent == Init /\ [][NextConcurrent]_vars

(***************************************************************************)
(* A file system whose writes may fail.  f.write(d) and the flush at the   *)
(* end of the with block hand the bytes to the operating system, which may *)
(* fail (no space left, I/O error) after it has taken only some of them;   *)
(* SaveToFile.execute has no handler, so OSError leaves execute.           *)
(***************************************************************************)
\* how many bytes of d the file may have taken when the write failed
PartialLengths(d) == {0, Len(d) \div 2}

\* the file after a write that failed once the first k bytes were taken
PartialWrite(old, d, k) == WriteAt0(old, SubSeq(d, 1, k))

\* a failing write after which the previous content is put back
SaveWriteFails_Restores ==
  /\ pc = "write"
  /\ frame.buf # <<>>
  /\ files' = [files EXCEPT ![frame.node] = frame.prev]
  /\ pc' = "idle"
  /\ frame' = NoFrame
  /\ result' = [Raised(frame.via, "OSError", <<>>, frame.d, <<>>, frame.file_path)
                  EXCEPT !.node = frame.node, !.existed = frame.existed,
                         !.prev = frame.prev, !.caller = frame.caller]
  /\ UNCHANGED << dirs, storage, conv, memo, ncalls, composition >>

\* f.write(d) or the closing flush raises OSError
SaveWriteFails ==
  /\ pc = "write"
  /\ frame.buf # <<>>
  /\ \E k \in PartialLengths(frame.buf) :
       files' = [files EXCEPT ![frame.node] = PartialWrite(files[frame.node], frame.buf, k)]
  /\ pc' = "idle"
  /\ frame' = NoFrame
  /\ result' = [Raised(frame.via, "OSError", <<>>, frame.d, <<>>, frame.file_path)
                  EXCEPT !.node = frame.node, !.existed = frame.existed,
                         !.prev = frame.prev, !.caller = frame.caller]
  /\ UNCHANGED << dirs, storage, conv, memo, ncalls, composition >>

NextWriteFailure ==
  \/ \E i \in SaveValueIds, f \in SaveToFilePathInputs : CallSaveToFile(i, f)
  \/ SaveMkdir
  \/ SaveOpen
  \/ SaveWrite
  \/ SaveWriteFails

SpecWriteFailure == Init /\ [][NextWriteFailure]_vars

(***************************************************************************)
(* Properties.                                                             *)
(***************************************************************************)
Converting(t) == conv.d # 0 /\ Values[conv.d].type = t

BytesTrue  == <<84, 114, 117, 101>>
BytesFalse == <<70, 97, 108, 115, 101>>

\* C1: for both boolean values ConvertToBytes returns the textual encoding,
\* b"True" for True and b"False" for False, and never b"1" or b"0".
BooleanTextualEncoding ==
  Converting("bool") =>
    /\ conv.out.status = "return"
    /\ conv.out.bytes = (IF Values[conv.d].val THEN BytesTrue ELSE BytesFalse)
    /\ conv.out.bytes \notin {<<49>>, <<48>>}

BooleanConvertedBothWays ==
  /\ Converting("bool") /\ ~Values[conv.d].val /\ conv.out.bytes = BytesFalse
  /\ memo.d # 0 /\ Values[memo.d].type = "bool" /\ Values[memo.d].val
  /\ memo.out.bytes = BytesTrue

\* C2: a boolean input is handled by the boolean arm of the chain of type
\* checks, which is reached before the integer arm.
BooleanArmBeforeIntegerArm == Converting("bool") => conv.out.branch = "bool"

\* C3: for every duration ConvertToBytes returns, without raising, the UTF-8
\* bytes of the decimal string of the duration's total seconds.
DurationAsTotalSeconds ==
  Converting("timedelta") =>
    /\ conv.out.status = "return"
    /\ conv.out.bytes = Utf8(StrFloat(TotalSeconds(Values[conv.d]).val))

\* the classes of the documented closed kind set: text, bytes,
\* byte-mutable-sequence, mapping, sequence, bool, int, float, date,
\* date-time and duration
DocumentedTypes ==
  {"str", "bytes", "bytearray", "dict", "list", "bool", "int", "float",
   "date", "datetime", "timedelta"}

\* C4: ConvertToBytes returns bytes and raises nothing for every value of a
\* documented kind.
TotalOnDocumentedKinds ==
  (conv.d # 0 /\ Values[conv.d].type \in DocumentedTypes) => conv.out.status = "return"

UnsupportedKindRaises ==
  (conv.d # 0 /\ Values[conv.d].type \notin DocumentedTypes) =>
    /\ conv.out.status = "raise"
    /\ conv.out.exc = "Exception"
    /\ conv.out.msg = <<"Unsupported type: ", "<class '", Values[conv.d].type, "'>">>
    /\ conv.out.bytes = <<>>

UnsupportedKindRaised ==
  /\ conv.d # 0 /\ Values[conv.d].type = "tuple" /\ conv.out.status = "raise"
  /\ result.op = "ConvertToBytes" /\ result.status = "raise" /\ result.exc = "Exception"

ConstructedUnityCatalog == result.op = "UnityCatalogVolumeStorageService"

\* C7: constructing UnityCatalogVolumeStorageService with a relative
\* file_path that ends in "/" raises and yields no instance, whatever the
\* other three arguments are.
DirectoryPathRejected ==
  (/\ ConstructedUnityCatalog
   /\ Head(result.args[4]) # Sep
   /\ EndsWith(result.args[4], Sep)) =>
    /\ result.status = "raise"
    /\ storage = NoStorage

Saving(via) == pc # "idle" /\ frame.via = via

\* the mount root followed by the four components, in order
VolumePath(self) ==
  [root |-> "/",
   parts |-> <<"Volumes">> \o ParsePath(self.catalog_name).parts
               \o ParsePath(self.schema_name).parts
               \o ParsePath(self.volume_name).parts \o self.file_path.parts]

\* C8: save() of a UnityCatalogVolumeStorageService built with a relative
\* file_path writes to /Volumes/<catalog_name>/<schema_name>/<volume_name>/<file_path>.
SavesUnderVolumePath ==
  (Saving("UnityCatalogVolumeStorageService.save") /\ storage.file_path.root = "") =>
    frame.file_path = VolumePath(storage)

SaveOps == {"SaveToFile", "UnityCatalogVolumeStorageService.save", "StorageService.save"}

OsErrors == {"FileNotFoundError", "FileExistsError", "NotADirectoryError", "IsADirectoryError"}

\* every proper prefix of the file's location is a directory
AncestorsExist(node) == \A k \in 0..(Len(node) - 1) : SubSeq(node, 1, k) \in dirs

\* C9: a save creates every missing ancestor directory of the destination, to
\* any depth: after it returns, the file and all its ancestors exist, and a
\* save fails in the file system only where an ancestor is a regular file or
\* the destination is a directory (never because an ancestor is missing or
\* already exists).
AncestorsCreated ==
  /\ (result.op \in SaveOps /\ result.status = "return") =>
       (result.node \in DOMAIN files /\ AncestorsExist(result.node))
  /\ (result.op \in SaveOps /\ result.status = "raise" /\ result.exc \in OsErrors) =>
       \/ Walk(dirs, files, result.path).err = "NotADirectoryError"
       \/ Walk(dirs, files, result.path).node \in dirs

\* a/b/c/d/file.json saved where none of a, b, c, d existed
DeepAncestorsCreated ==
  /\ result.op = "SaveToFile" /\ result.status = "return"
  /\ result.path = ParsePath(<<"a", Sep, "b", Sep, "c", Sep, "d", Sep, "file.json">>)
  /\ result.created = 4
  /\ Cwd \o <<"a", "b", "c", "d">> \in dirs
  /\ Cwd \o <<"a", "b", "c", "d", "file.json">> \in DOMAIN files

\* the order of the statements of SaveToFile.execute
SaveStepOrder ==
  /\ pc' = "mkdir" => (pc = "idle" /\ conv'.d = frame'.d /\ frame'.buf = conv'.out.bytes)
  /\ pc' = "open"  => pc = "mkdir"
  /\ pc' = "write" => pc = "open"
  /\ (result' # result /\ result'.op \in SaveOps /\ result'.status = "return") => pc = "write"

\* C10: SaveToFile.execute converts, creates the ancestors, opens and writes,
\* in this order, and overwrites: once a save of value v to path p has
\* returned (and until the next call), the content of p is exactly
\* ConvertToBytes(v).
SaveOverwrites ==
  /\ [][SaveStepOrder]_vars
  /\ []((pc = "idle" /\ result.op \in SaveOps /\ result.status = "return") =>
          files[result.node] = ConvertToBytes(Values[result.d]).bytes)

\* a save that returned although the destination held a longer content
LongerContentReplaced ==
  /\ pc = "idle" /\ result.op \in SaveOps /\ result.status = "return"
  /\ result.existed /\ Len(result.prev) > Len(files[result.node])
  /\ files[result.node] # <<>>

(***************************************************************************)
(* Properties of the composition layer and of the use case.                *)
(***************************************************************************)
\* the latest top-level call was a save that returned
SaveReturned == pc = "idle" /\ result.op \in SaveOps /\ result.status = "return"

\* C11: every successful SaveToFile.execute emits, after the bytes have been
\* written, a completion notice that references the final destination
\* path: when a save has returned, the run has printed something that
\* names the path it wrote.
CompletionNoticeEmitted ==
  SaveReturned =>
    \E k \in 1..Len(trace) : trace[k].ev = "print" /\ trace[k].path = result.path

\* the use case the caller holds has run to the end of its save
ExecuteReturned == SaveReturned /\ result.caller = "DownloadAndStore.execute"

\* the file a path designates from the working directory
FileAt(p) == Collapse(<<>>, Components(p))

\* the UTF-8 JSON encoding of the mappings of the table
Utf8JsonOf ==
  [i \in {j \in ValueIds : Values[j].type = "dict"} |-> Utf8(JsonDumps(Values[i]))]

Utf8Json(i) == Utf8JsonOf[i]

\* C12: for a pipeline made of a source that returns the mapping m, the
\* identity transform AsIsParser and a StorageService at path p, once
\* DownloadAndStore.execute has returned the file at p holds exactly the
\* UTF-8 JSON encoding of m.
EndToEndJson ==
  (/\ ExecuteReturned
   /\ Download(usecase.download_client).exc = ""
   /\ usecase.parser = "AsIsParser"
   /\ usecase.storage.cls = "StorageService")
    => /\ FileAt(usecase.storage.file_path) \in DOMAIN files
       /\ files[FileAt(usecase.storage.file_path)]
            = Utf8Json(Download(usecase.download_client).out)

\* {"data": [{"id": 1, "name": "frame1"}]}
StubJsonBytes ==
  << 123, 34, 100, 97, 116, 97, 34, 58, 32, 91, 123, 34, 105, 100, 34, 58, 32, 49, 44, 32,
     34, 110, 97, 109, 101, 34, 58, 32, 34, 102, 114, 97, 109, 101, 49, 34, 125, 93, 125 >>

\* the stub's mapping has replaced a longer /tmp/out.json
StubMappingStored ==
  /\ ExecuteReturned
  /\ usecase.download_client = "StubSource"
  /\ usecase.parser = "AsIsParser"
  /\ usecase.storage.cls = "StorageService"
  /\ result.existed
  /\ result.node = <<"tmp", "out.json">>
  /\ files[<<"tmp", "out.json">>] = StubJsonBytes

\* the latest call was ClassImportPath.from_string
FromStringReturned == result.op = "ClassImportPath.from_string" /\ result.status = "return"

HasDot(s) == \E k \in 1..Len(s) : s[k] = Dot

\* C13: from_string splits a dotted string at its last ".": for a string
\* with a "." the namespace is everything before the last "." and the name
\* everything after it (so namespace + "." + name is the string and the
\* name holds no "."); for a string without "." the namespace is the root
\* sentinel "." and the name is the whole string.
FromStringSplitsAtLastDot ==
  FromStringReturned =>
    LET s == result.args[1]
        r == result.ref
    IN IF HasDot(s)
         THEN r.module_name \o <<Dot>> \o r.class_name = s /\ ~HasDot(r.class_name)
         ELSE r.module_name = <<Dot>> /\ r.class_name = s

\* "a.b.C" has been split into "a.b" and "C"
TwoDotsSplit ==
  /\ FromStringReturned
  /\ result.args[1] = <<"a", Dot, "b", Dot, "C">>
  /\ result.ref = [module_name |-> <<"a", Dot, "b">>, class_name |-> <<"C">>]

\* the errors import_class documents: ModuleNotFoundError when the module
\* does not exist, AttributeError when the class is not in it
ResolutionErrors == {"ModuleNotFoundError", "AttributeError"}

\* the latest call was import_class on a reference whose namespace is no
\* module or whose name is not in the module
Unresolvable ==
  /\ result.op = "ClassImportPath.import_class"
  /\ \/ result.ref.module_name \notin DOMAIN Modules
     \/ /\ result.ref.module_name \in DOMAIN Modules
        /\ \A k \in 1..Len(result.ref.class_name) :
             result.ref.class_name[k] \notin Modules[result.ref.module_name]

\* C14: resolving a reference whose namespace cannot be located or whose
\* name is absent in it, a reference with the root-sentinel namespace
\* included, fails with a resolution error and with no other kind of error.
ResolutionFailsWithResolutionError ==
  Unresolvable => result.status = "raise" /\ result.exc \in ResolutionErrors

\* how many events of one kind the latest call made
Count(ev) == Cardinality({k \in 1..Len(trace) : trace[k].ev = ev})

\* every name some module of the repository holds
RepositoryNames == UNION {Modules[name] : name \in DOMAIN Modules}

\* the run of the top-level call caller is over
RunOver(caller) == pc = "idle" /\ result.caller = caller

\* C15: main() builds the default configuration, resolves its three
\* references to implementations of this repository and executes the
\* pipeline exactly once: when main is over there have been three
\* successful resolutions, one download, one parse and one save.
MainRunsPipelineOnce ==
  RunOver("main") =>
    /\ Count("resolve") = 3
    /\ \A k \in 1..Len(trace) : trace[k].ev = "resolve" => trace[k].obj \in RepositoryNames
    /\ Count("download") = 1 /\ Count("parse") = 1 /\ Count("save") = 1

\* the stage calls of the latest call, in order
Stages == SelectSeq(trace, LAMBDA e : e.ev \in {"download", "parse", "save"})

\* a use case has run to the end of its save
UseCaseReturned == SaveReturned /\ result.caller # ""

\* C16: DownloadAndStore.execute calls download once, then parse once on the
\* value download returned, then save once on the value parse returned, in
\* that order, and returns nothing.
ExecuteRunsStagesInOrder ==
  UseCaseReturned =>
    /\ Len(Stages) = 3
    /\ Stages[1].ev = "download" /\ Stages[2].ev = "parse" /\ Stages[3].ev = "save"
    /\ Stages[2].d = Stages[1].out
    /\ Stages[3].d = Stages[2].out
    /\ result.d = Stages[3].d
    /\ result.returns = "None"

\* a run whose parser returned another value than it was given
ParsedValueSaved ==
  /\ ExecuteReturned
  /\ usecase.download_client = "GraphQLService"
  /\ usecase.parser = "FixedParser"
  /\ Len(Stages) = 3
  /\ Stages[1].out = GraphQLPayloadId
  /\ Stages[2].out = FixedParserOutput
  /\ result.d = FixedParserOutput
  /\ files[result.node] = ConvertToBytesOf[FixedParserOutput].bytes

\* a use case has ended with an exception
UseCaseRaised == pc = "idle" /\ result.caller # "" /\ result.status = "raise"

\* C17: an exception raised by a stage of DownloadAndStore.execute reaches
\* the caller unchanged and stops the pipeline: after a failed download
\* neither parse nor save has been called, after a failed parse save has
\* not been called, after a failed save nothing has been called again.
ExceptionStopsPipeline ==
  LET data   == Download(usecase.download_client)
      parsed == Parse(usecase.parser, data.out)
  IN /\ (UseCaseRaised /\ result.op = "DownloadAndStore.execute") =>
          /\ Count("download") = 1 /\ Count("save") = 0
          /\ IF data.exc # ""
               THEN result.exc = data.exc /\ Count("parse") = 0
               ELSE result.exc = parsed.exc /\ parsed.exc # "" /\ Count("parse") = 1
     /\ (UseCaseRaised /\ result.op \in SaveOps) =>
          /\ Count("download") = 1 /\ Count("parse") = 1 /\ Count("save") = 1
          /\ data.exc = "" /\ parsed.exc = ""
          /\ result.exc = ConvertToBytesOf[parsed.out].exc \/ result.exc \in OsErrors

\* a failed parse has ended the run after one download
ParseFailureReachedCaller ==
  /\ UseCaseRaised
  /\ result.op = "DownloadAndStore.execute"
  /\ result.exc = "ValueError"
  /\ Count("download") = 1 /\ Count("parse") = 1 /\ Count("save") = 0

\* the constructor calls the latest call made for a storage backend
StorageConstructions ==
  SelectSeq(trace, LAMBDA e : e.ev = "new" /\ e.obj \in {"four-parameter", "one-path"})

\* the position of the first event of a kind, 0 when there is none
FirstEvent(ev) ==
  IF Count(ev) = 0 THEN 0 ELSE CHOOSE k \in 1..Len(trace) :
    trace[k].ev = ev /\ \A j \in 1..(k - 1) : trace[j].ev # ev

\* the latest call resolved a storage class that carries a tag and
\* instantiated the source and the transform: it reached the dispatch
Dispatched(k) ==
  /\ trace[k].ev = "resolve" /\ trace[k].who = "storage_class"
  /\ StorageTypeOf(trace[k].obj) # ""
  /\ Cardinality({j \in 1..Len(trace) : trace[j].ev = "new" /\ trace[j].obj = "zero-arg"}) = 2

\* C18: the dispatch is a two-way branch decided on the class before
\* instantiation: a resolved storage class tagged "unity-catalog-volume"
\* is constructed with catalog, schema, volume and relative file path,
\* every other resolved storage class with the one path, and exactly one
\* of the two constructors is called in a run.
DispatchOnClassTag ==
  \A k \in 1..Len(trace) :
    Dispatched(k) =>
      /\ Len(StorageConstructions) = 1
      /\ StorageConstructions[1].who = trace[k].obj
      /\ FirstEvent("print") > k
      /\ \A j \in 1..FirstEvent("print") : ~(trace[j].ev = "new" /\ trace[j].who = trace[k].obj)
      /\ usecase.storage.cls = trace[k].obj
      /\ IF StorageTypeOf(trace[k].obj) = "unity-catalog-volume"
           THEN /\ StorageConstructions[1].obj = "four-parameter"
                /\ usecase.storage.catalog_name = BaseCatalogName(usecase.context.environment)
                /\ usecase.storage.schema_name = <<"default">>
                /\ usecase.storage.volume_name = <<"sales-reporting-gen2-temp">>
                /\ usecase.storage.file_path = ParsePath(LandingFile)
                /\ usecase.storage.file_path.root = ""
           ELSE /\ StorageConstructions[1].obj = "one-path"
                /\ usecase.storage.catalog_name = <<>>
                /\ usecase.storage.file_path = ParsePath(FilesystemFile)

\* a run has taken the Unity Catalog branch for the prod environment
FourParameterShapeBuilt ==
  /\ RunOver("ingest_frames_from_api_into_landing_layer")
  /\ \E k \in 1..Len(trace) :
       Dispatched(k) /\ trace[k].obj = "UnityCatalogVolumeStorageService"
  /\ Len(StorageConstructions) = 1
  /\ StorageConstructions[1].obj = "four-parameter"
  /\ usecase.storage.catalog_name = <<"prod_catalog_base">>

\* both runs have completed a save to the same file
BothSaved ==
  /\ SaveReturned /\ result.op = "SaveToFile"
  /\ other.status = "return"
  /\ other.node = result.node

\* C19: when two runs save concurrently to the same destination, the last
\* writer wins: once both saves have completed the destination holds
\* exactly the converted bytes of one of the two runs, never a mix.
LastWriterWins ==
  BothSaved =>
    files[result.node] \in {ConvertToBytesOf[result.d].bytes, other.buf}

\* a path in canonical absolute form: rooted, and no ".." left in it
Canonical(p) == p.root = "/" /\ \A k \in 1..Len(p.parts) : p.parts[k] # ".."

\* C20: StorageService resolves its candidate path to a canonical absolute
\* form, relative segments collapsed against the working directory, before
\* it delegates: the path SaveToFile receives from save() is absolute.
StorageServicePassesAbsolutePath ==
  Saving("StorageService.save") =>
    /\ Canonical(frame.file_path)
    /\ (frame.caller = "" /\ storage.file_path.root = "") =>
         SubSeq(frame.file_path.parts, 1, Len(Cwd)) = Cwd
    /\ (frame.caller # "" /\ usecase.storage.file_path.root = "") =>
         SubSeq(frame.file_path.parts, 1, Len(Cwd)) = Cwd

\* the relative candidate out/../rel.json has reached SaveToFile as
\* /work/rel.json
RelativeCandidateResolved ==
  /\ Saving("StorageService.save")
  /\ storage.file_path = [root |-> "", parts |-> <<"out", "..", "rel.json">>]
  /\ frame.file_path = [root |-> "/", parts |-> <<"work", "rel.json">>]

(***************************************************************************)
(* Properties of the presets, of the resolutions and of failures.          *)
(***************************************************************************)
\* the latest top-level call returned one of the two presets
PresetReturned(op) == pc = "idle" /\ result.op = op /\ result.status = "return"

\* C21: the two built-in presets are identical: the record that
\* Context.default() returns equals the record that
\* Context.notebook_default() returns, field by field (environment,
\* project_package_name and the three references).
PresetsIdentical ==
  /\ PresetReturned("Context.default") =>
       /\ context = ContextNotebookDefaultValue
       /\ context.environment = ContextNotebookDefaultValue.environment
       /\ context.project_package_name = ContextNotebookDefaultValue.project_package_name
       /\ context.frames_class = ContextNotebookDefaultValue.frames_class
       /\ context.frames_parser_class = ContextNotebookDefaultValue.frames_parser_class
       /\ context.storage_class = ContextNotebookDefaultValue.storage_class
  /\ PresetReturned("Context.notebook_default") => context = ContextDefaultValue

\* notebook_default() has returned the development configuration
NotebookPresetReturned ==
  /\ PresetReturned("Context.notebook_default")
  /\ context.environment = "dev"
  /\ context.project_package_name = "example_project"
  /\ context.storage_class =
       [module_name |-> <<"example_project", Dot, "storage">>, class_name |-> <<"StorageService">>]

\* the top-level calls that run ingest_frames_from_api_into_landing_layer
IngestCallers == {"ingest_frames_from_api_into_landing_layer", "main"}

\* the latest composition call is a run of the ingest function, over or
\* inside its save
IngestRun ==
  \/ pc = "idle" /\ result.caller \in IngestCallers
  \/ pc # "idle" /\ frame.caller \in IngestCallers

\* the three roles in the order of import_frame_service_classes
Roles == <<"frames_class", "frames_parser_class", "storage_class">>

\* the resolutions of the latest composition call, in order
Resolutions == SelectSeq(trace, LAMBDA e : e.ev = "resolve")

\* the names of the repository's modules that are bound to a class (json is
\* a module and Any a special form)
RepositoryClasses == RepositoryNames \ {"json", "Any"}

\* C22: in one run of ingest_frames_from_api_into_landing_layer resolution
\* is invoked at most once per role, in the order source, transform,
\* storage, and exactly once per role unless a resolution raised (which
\* ends the run at once); a resolution that succeeds yields a class, and
\* every instantiation comes after the three resolutions and is a call of
\* the class that the resolution of its role yielded.
ResolvesOncePerRoleInOrder ==
  IngestRun =>
    LET n == Len(Resolutions)
    IN /\ n \in 1..3
       /\ \A k \in 1..n : trace[k] = Resolutions[k] /\ Resolutions[k].who = Roles[k]
       /\ \A k \in 1..(n - 1) : Resolutions[k].obj \in RepositoryClasses
       /\ IF Resolutions[n].obj \in RepositoryClasses
            THEN n = 3
            ELSE Len(trace) = n /\ pc = "idle" /\ result.status = "raise"
                   /\ result.exc = Resolutions[n].obj
       /\ \A j \in 1..Len(trace) :
            trace[j].ev = "new" =>
              /\ j > 3
              /\ \A k \in 1..3 : Resolutions[k].obj \in RepositoryClasses
              /\ \E k \in 1..3 : trace[j].who = Resolutions[k].obj
       /\ Count("new") >= 1 => trace[4].ev = "new" /\ trace[4].who = Resolutions[1].obj
       /\ Count("new") >= 2 => trace[5].ev = "new" /\ trace[5].who = Resolutions[2].obj

\* a run that resolved three classes, instantiated each and saved
ThreeClassesResolvedThenInstantiated ==
  /\ RunOver("ingest_frames_from_api_into_landing_layer") /\ SaveReturned
  /\ Len(Resolutions) = 3
  /\ Resolutions[1].obj = "FrameService"
  /\ Resolutions[2].obj = "AsIsParser"
  /\ Resolutions[3].obj = "UnityCatalogVolumeStorageService"
  /\ Count("new") = 3

\* the ten bytes YYYY-MM-DD of a date or of the date part of a date-time
IsoDateBytes(v) ==
  ZeroPad(v.year, 4) \o <<45>> \o ZeroPad(v.month, 2) \o <<45>> \o ZeroPad(v.day, 2)

\* C23: a date-time is converted by the date-time arm and not by the
\* calendar-date arm, and its bytes are the full ISO-8601 string: the date,
\* "T", then HH:MM:SS (and the microseconds when there are any); a
\* calendar date is converted by the calendar-date arm to the ten bytes of
\* its ISO-8601 date.
DateTimeKeepsTime ==
  /\ Converting("datetime") =>
       LET v == Values[conv.d].val
           b == conv.out.bytes
       IN /\ conv.out.status = "return"
          /\ conv.out.branch = "datetime"
          /\ Len(b) = (IF v.microsecond = 0 THEN 19 ELSE 26)
          /\ SubSeq(b, 1, 10) = IsoDateBytes(v)
          /\ b[11] = 84
          /\ SubSeq(b, 12, 19) = ZeroPad(v.hour, 2) \o <<58>> \o ZeroPad(v.minute, 2)
                                   \o <<58>> \o ZeroPad(v.second, 2)
          /\ v.microsecond # 0 => SubSeq(b, 20, 26) = <<46>> \o ZeroPad(v.microsecond, 6)
  /\ Converting("date") =>
       /\ conv.out.status = "return"
       /\ conv.out.branch = "date"
       /\ conv.out.bytes = IsoDateBytes(Values[conv.d].val)

\* datetime(2025, 1, 2, 3, 4, 5) has become b"2025-01-02T03:04:05" after
\* date(2025, 1, 2) had become b"2025-01-02"
DateTimeAndDateConverted ==
  /\ Converting("datetime")
  /\ conv.out.bytes = << 50, 48, 50, 53, 45, 48, 49, 45, 48, 50, 84,
                         48, 51, 58, 48, 52, 58, 48, 53 >>
  /\ memo.d # 0 /\ Values[memo.d].type = "date"
  /\ memo.out.bytes = << 50, 48, 50, 53, 45, 48, 49, 45, 48, 50 >>

\* the latest save ended with the operating system failing the write
WriteFailed ==
  pc = "idle" /\ result.op \in SaveOps /\ result.status = "raise" /\ result.exc = "OSError"

\* p is a leading part of b
IsPrefix(p, b) == Len(p) <= Len(b) /\ p = SubSeq(b, 1, Len(p))

\* C24: SaveToFile.execute has no partial-write recovery: from the moment
\* the destination has been opened for writing its previous content is
\* gone, and when the write then fails the destination is left empty or
\* holding only a leading part of the new bytes; the previous content is
\* not put back (the file can equal it only where the previous content is
\* itself a leading part of the new bytes).
NoPartialWriteRecovery ==
  /\ pc = "write" => frame.node \in DOMAIN files /\ files[frame.node] = <<>>
  /\ WriteFailed =>
       LET f == files[result.node]
           b == ConvertToBytesOf[result.d].bytes
       IN /\ Len(f) < Len(b)
          /\ IsPrefix(f, b)
          /\ (result.prev # <<>> /\ ~IsPrefix(result.prev, b)) => f # result.prev

\* a failed write has left a leading part of the new bytes where a longer
\* content had been
TruncatedAfterFailedWrite ==
  /\ WriteFailed
  /\ result.existed /\ result.prev = OldContent
  /\ files[result.node] # <<>>
  /\ Len(files[result.node]) < Len(ConvertToBytesOf[result.d].bytes)

\* a call of a save whose conversion raised: it is over at once, with the
\* conversion's exception, and the file system is as it was
ConversionFailureStep ==
  (pc = "idle" /\ ncalls' # ncalls /\ result'.op \in SaveOps
     /\ ConvertToBytesOf[conv'.d].status = "raise") =>
    /\ pc' = "idle" /\ frame' = NoFrame
    /\ result'.status = "raise" /\ result'.d = conv'.d
    /\ result'.exc = ConvertToBytesOf[conv'.d].exc
    /\ dirs' = dirs /\ files' = files

\* C25: when ConvertToBytes fails inside SaveToFile.execute the file system
\* is left unchanged: the call ends with the conversion's exception before
\* the directory creation and the open are reached, so no ancestor
\* directory is created and the destination is neither created, truncated
\* nor written; the file-system statements run only for values that were
\* converted.
ConversionFailureLeavesFileSystem ==
  /\ [][ConversionFailureStep]_vars
  /\ [][pc' = "mkdir" => (pc = "idle" /\ ConvertToBytesOf[frame'.d].status = "return")]_vars
  /\ [](pc # "idle" => ConvertToBytesOf[frame.d].status = "return")

\* None was to be saved to a/b/c/d/file.json where a/b/c does not exist:
\* the call raised and a/b/c still does not exist
UnconvertibleSaveRaised ==
  /\ pc = "idle" /\ result.op = "SaveToFile" /\ result.status = "raise"
  /\ result.exc = "Exception"
  /\ Values[result.d].type = "NoneType"
  /\ result.path = ParsePath(<<"a", Sep, "b", Sep, "c", Sep, "d", Sep, "file.json">>)
  /\ Cwd \o <<"a", "b", "c">> \notin dirs

\* the latest call was a run of the ingest function that ended before its
\* use case was built
IngestRaised ==
  /\ pc = "idle" /\ result.op = "ingest_frames_from_api_into_landing_layer"
  /\ result.status = "raise"

\* a step that is a whole run of the ingest function ending before the use
\* case was built: it leaves the file system and the caller's objects alone
IngestRaisedStep ==
  (pc = "idle" /\ pc' = "idle" /\ ncalls' # ncalls /\ result'.status = "raise"
     /\ result'.op = "ingest_frames_from_api_into_landing_layer") =>
    /\ frame' = NoFrame
    /\ dirs' = dirs /\ files' = files
    /\ usecase' = usecase

\* C26: in ingest_frames_from_api_into_landing_layer the storage backend is
\* constructed before the use case executes: a run in which a resolution,
\* an instantiation, the capability-tag check or the storage constructor
\* raised has called neither download nor parse nor save and has written
\* nothing, and in every run the first download comes after the
\* construction of the storage backend.
StorageBuiltBeforeExecute ==
  /\ [](IngestRaised =>
          Count("download") = 0 /\ Count("parse") = 0 /\ Count("save") = 0)
  /\ [](IngestRun =>
          \A j \in 1..Len(trace) :
            trace[j].ev = "download" =>
              \E k \in 1..(j - 1) :
                trace[k].ev = "new" /\ trace[k].obj \in {"four-parameter", "one-path"})
  /\ [][IngestRaisedStep]_vars

\* the storage reference resolved to a class without the capability tag:
\* the run ended at the tag check, after source and transform had been
\* instantiated
TagCheckFailedBeforeDownload ==
  /\ IngestRaised
  /\ result.exc = "AttributeError"
  /\ Len(Resolutions) = 3 /\ Resolutions[3].obj = "Storage"
  /\ Count("new") = 2
  /\ Count("download") = 0

\* the file that p designates lies below the mount root /Volumes
UnderMountRoot(p) ==
  LET node == Collapse(<<>>, Components(p))
  IN Len(node) >= 2 /\ node[1] = "Volumes"

\* C27: UnityCatalogVolumeStorageService never writes outside its mount
\* root: whatever the four constructor arguments of a constructed instance
\* are, the path that save() passes to SaveToFile lies under /Volumes/.
NeverOutsideMountRoot ==
  Saving("UnityCatalogVolumeStorageService.save") => UnderMountRoot(frame.file_path)

\* the latest call was str(r) for a reference r made from a dotted string
StrOfDotted ==
  /\ result.op = "ClassImportPath.__str__" /\ result.status = "return"
  /\ HasDot(result.args[1])

\* C28: a Component Reference round-trips: for every string s that holds at
\* least one ".", str(from_string(s)) is s, and for the reference r that
\* from_string made from such a string, from_string(str(r)) is r.
ReferenceRoundTrip ==
  /\ [](StrOfDotted => result.args[2] = result.args[1])
  /\ [][(StrOfDotted /\ result'.op = "ClassImportPath.from_string(str)")
          => result'.ref = result.ref]_vars

\* "a.b.C" has gone through from_string, str and from_string again
RoundTripMade ==
  /\ result.op = "ClassImportPath.from_string(str)"
  /\ result.args = << <<"a", Dot, "b", Dot, "C">>, <<"a", Dot, "b", Dot, "C">> >>
  /\ result.ref = [module_name |-> <<"a", Dot, "b">>, class_name |-> <<"C">>]

\* the step belongs to an execute() of the use case the caller holds
ExecuteStep ==
  \/ pc # "idle" /\ frame.caller = "DownloadAndStore.execute"
  \/ pc = "idle" /\ pc' # "idle" /\ frame'.caller = "DownloadAndStore.execute"
  \/ pc = "idle" /\ pc' = "idle" /\ ncalls' # ncalls
       /\ result'.caller = "DownloadAndStore.execute"

\* the step ends an execute() that returned, and the call before it was an
\* execute() of the same use case that returned too
RepeatedExecuteReturns ==
  /\ pc = "write" /\ pc' = "idle" /\ result'.status = "return"
  /\ frame.caller = "DownloadAndStore.execute"
  /\ result.op \in SaveOps /\ result.status = "return"
  /\ result.caller = "DownloadAndStore.execute"

\* C29: repeated execution is idempotent on the destination: with a fixed
\* composition and an unchanged working directory, an execute() that
\* returns after an execute() that returned writes the same file and
\* leaves it with the content the earlier call left (so after any number of
\* calls the content is that of the first), and no step of execute()
\* changes the use case's fields.
RepeatedExecuteIdempotent ==
  /\ [][RepeatedExecuteReturns =>
          /\ frame.node = result.node
          /\ frame.existed
          /\ files'[frame.node] = frame.prev
          /\ files' = [files EXCEPT ![frame.node] = frame.prev]
          /\ files'[frame.node] = ConvertToBytesOf[Parse(usecase.parser,
                                     Download(usecase.download_client).out).out].bytes
          /\ dirs' = dirs]_vars
  /\ [][ExecuteStep => usecase' = usecase]_vars

\* the stub's mapping has been stored twice by the same use case
StubStoredTwice ==
  /\ ExecuteReturned
  /\ ncalls = 4
  /\ usecase.download_client = "StubSource"
  /\ usecase.parser = "AsIsParser"
  /\ result.existed
  /\ result.prev = StubJsonBytes
  /\ files[result.node] = StubJsonBytes

\* a run of the ingest function is inside the save of its use case
IngestSaving == pc # "idle" /\ frame.caller \in IngestCallers

\* the text /Volumes/<environment>_catalog_base/default/
\* sales-reporting-gen2-temp/landing_layer_test/2025_file.json as a path
EnvironmentTarget(environment) ==
  ParsePath(<<Sep, "Volumes", Sep>> \o BaseCatalogName(environment)
              \o <<Sep, "default", Sep, "sales-reporting-gen2-temp", Sep>> \o LandingFile)

\* C30: the destination of ingest_frames_from_api_into_landing_layer depends
\* on the environment tag only in the three-level-namespace branch: that
\* branch saves to /Volumes/<environment>_catalog_base/default/
\* sales-reporting-gen2-temp/landing_layer_test/2025_file.json, the
\* path-addressed branch always to that path under dev_catalog_base, and
\* the two paths are the same exactly when the tag is "dev".
DestinationFollowsEnvironment ==
  IngestSaving =>
    IF usecase.storage.cls = "UnityCatalogVolumeStorageService"
      THEN /\ frame.file_path = EnvironmentTarget(usecase.context.environment)
           /\ (frame.file_path = ParsePath(FilesystemFile))
                <=> (usecase.context.environment = "dev")
      ELSE frame.file_path = ParsePath(FilesystemFile)

\* the same statement for environment tags that hold no "/"
DestinationFollowsPlainEnvironment ==
  (IngestSaving /\ usecase.context.environment \in {"dev", "prod"}) =>
    IF usecase.storage.cls = "UnityCatalogVolumeStorageService"
      THEN /\ frame.file_path = EnvironmentTarget(usecase.context.environment)
           /\ (frame.file_path = ParsePath(FilesystemFile))
                <=> (usecase.context.environment = "dev")
      ELSE frame.file_path = ParsePath(FilesystemFile)

====
